---- MODULE Spec2Model ----
(***************************************************************************)
(* Indexing pipeline of openlore-api: the durable job queue               *)
(* (lib/jobQueue.ts), the chunker, chunk store and indexer (lib/rag.ts),  *)
(* the embedding cache (lib/embeddingCache.ts) and the lore write hooks   *)
(* that feed the queue (controllers/lore.ts).                             *)
(*                                                                         *)
(* Every await of the source is a suspension point: an async function is  *)
(* modelled as a process whose steps are its SQL statements, each of      *)
(* which the database runs atomically.                                    *)
(***************************************************************************)
EXTENDS Integers, Sequences, FiniteSets, TLC

\* ---------------------------------------------------------------- bounds
MaxJobs == 1          \* Spec: rows ever inserted into indexing_jobs
MaxFaults == 1        \* Spec: injected infrastructure failures (embedding, store)
OrderJobs == 2        \* SpecOrder: rows ever inserted into indexing_jobs
ReindexJobs == 3      \* SpecReindex: rows ever inserted into indexing_jobs
ReindexVer == 2       \* SpecReindex: versions a lore row goes through
MaxCalls == 3         \* SpecIndex: direct calls of the indexer
IndexVer == 2         \* SpecIndex: versions of a lore row's content
RagChunkTokens == 50  \* the deployment's RAG_CHUNK_TOKENS

\* ------------------------------------------------------ program constants
DefaultMaxRetries == 3         \* indexing_jobs.max_retries default
MinChunkTokens == 50           \* Math.max(50, config.ragChunkTokens)
RagChunkOverlapTokens == 40    \* RAG_CHUNK_OVERLAP_TOKENS default

Users == {"u1", "u2"}
LoreIds == {1, 2}
\* the user whose request creates lore row s (lore.userId)
LoreOwner(s) == IF s = 1 THEN "u1" ELSE "u2"

\* the background loop of startJobProcessor and one foreground caller of
\* processPendingJobsForUser
Workers == {"loop", "drain"}

VARIABLES
  jobs,      \* indexing_jobs: sequence of rows, the index is the serial id
  clock,     \* the database's now()
  chunks,    \* rag_chunks: set of rows
  nextChunk, \* rag_chunks.id serial
  lore,      \* lore rows: id -> current version (0: no such row)
  hooks,     \* onAfterUpdate chains between their two enqueues
  wk,        \* the workers' positions and locals
  faults,    \* failures injected so far
  lim,       \* the run's bounds: [jobs, faults, ver, lore, ties]
  calls,     \* history: the direct calls of the indexer made so far; for the
             \* store's and the cache's callers, the latest statement
  wr,        \* calls of the indexer in flight, between two of their awaits
  ck,        \* a call of chunkText: its input, configuration and result
  cache,     \* embeddingCache: the Map's entries in insertion order
  now,       \* Date.now()
  emb,       \* calls of the cached embedText in flight
  recency,   \* history: the keys by their last read or write, oldest first
  nEmb,      \* history: the calls of embedText made so far
  req        \* request handlers in flight: writes and retrievals

\* the variables of the embedding cache
cacheVars == <<cache, now, emb, recency, nEmb>>

vars == <<jobs, clock, chunks, nextChunk, lore, hooks, wk, faults, lim, calls,
          wr, ck, cacheVars, req>>

Min2(a, b) == IF a < b THEN a ELSE b
Max2(a, b) == IF a > b THEN a ELSE b

\* ------------------------------------------------------------- chunker
\* Texts are token sequences: encode/decode of gpt-tokenizer round-trip, so a
\* chunk's text is identified with its token slice.
Slice(ids, from, to) == [i \in 1..(to - from) |-> ids[from + i]]

RECURSIVE StrideLoop(_, _, _, _)
\* the for loop of chunkText were its advance one token longer
StrideLoop(ids, i, max, overlap) ==
  IF i < Len(ids)
  THEN LET slice == Slice(ids, i, Min2(i + max, Len(ids)))
       IN  IF Len(slice) = 0 THEN << >>
           ELSE <<[chunk |-> slice, tokens |-> Len(slice)]>>
                \o StrideLoop(ids, i + (max - overlap) + 1, max, overlap)
  ELSE << >>

RECURSIVE ChunkLoop(_, _, _, _)
\* the for loop of chunkText from token offset i (0-based)
ChunkLoop(ids, i, max, overlap) ==
  IF i < Len(ids)
  THEN LET slice == Slice(ids, i, Min2(i + max, Len(ids)))
       IN  IF Len(slice) = 0 THEN << >>
           ELSE <<[chunk |-> slice, tokens |-> Len(slice)]>>
                \o ChunkLoop(ids, i + (max - overlap), max, overlap)
  ELSE << >>

\* max = Math.max(50, config.ragChunkTokens)
ChunkMax(cfgTokens) == Max2(MinChunkTokens, cfgTokens)

\* the overlap as configured, not clamped
UnclampedOverlap(cfgTokens, cfgOverlap) == cfgOverlap

\* overlap = Math.min(Math.floor(max / 4), config.ragChunkOverlapTokens)
ChunkOverlap(cfgTokens, cfgOverlap) == Min2(ChunkMax(cfgTokens) \div 4, cfgOverlap)

ChunkTextCfg(ids, cfgTokens, cfgOverlap) ==
  LET max == ChunkMax(cfgTokens)
      overlap == ChunkOverlap(cfgTokens, cfgOverlap)
      out == ChunkLoop(ids, 0, max, overlap)
  IN  IF Len(out) > 0 THEN out ELSE <<[chunk |-> ids, tokens |-> Len(ids)]>>

chunkText(ids) == ChunkTextCfg(ids, RagChunkTokens, RagChunkOverlapTokens)

\* sha256 of a chunk's text, taken to be collision free
sha256(s) == <<"sha256", s>>

\* ------------------------------------------------------------ lore texts
LoreTitle(s) == <<100 + s>>
ContentLen(v) == IF v = 1 THEN 3 ELSE 58 + v
\* version 1 is short (one chunk); later versions are longer than a window
\* and share their first window with each other
LoreContent(s, v) ==
  [i \in 1..ContentLen(v) |->
     IF v = 1 THEN 1 ELSE IF i <= 52 THEN 2 + (i % 2) ELSE 10 + v]
\* `${p.title}\n\n${p.content}`
LoreText(s, v) == LoreTitle(s) \o <<0>> \o LoreContent(s, v)

\* ----------------------------------------------------------- chunk store
\* SQL NULL in an integer column (p.sourceId ?? null)
Null == -1

\* the rows that conflict with an insert of key (userId, sourceType,
\* sourceId, hash) on the unique index rag_user_source_hash_uidx; a NULL
\* source_id is distinct from every value, NULL included
Conflicts(rows, u, st, sid, h) ==
  {r \in rows : sid # Null /\ r.userId = u /\ r.sourceType = st
                /\ r.sourceId = sid /\ r.hash = h}

\* upsertChunk without its on conflict clause, were the index not unique
InsertChunk(rows, id, u, st, sid, title, content) ==
  rows \cup {[userId |-> u, sourceType |-> st, sourceId |-> sid, title |-> title,
              content |-> content, hash |-> sha256(content), id |-> id]}

\* upsertChunk: insert ... on conflict (userId, sourceType, sourceId, hash)
\* do update set payload; id is the serial a new row takes (the values the
\* sequence skips on a conflict are not modelled: ids are only told apart)
upsertChunk(rows, id, u, st, sid, title, content) ==
  LET h == sha256(content)
      old == Conflicts(rows, u, st, sid, h)
      new == [userId |-> u, sourceType |-> st, sourceId |-> sid,
              title |-> title, content |-> content, hash |-> h]
  IN  IF old = {}
      THEN rows \cup {new @@ [id |-> id]}
      ELSE (rows \ old) \cup {new @@ [id |-> r.id] : r \in old}

\* deleteChunksForSource were its sourceId condition never pushed
DeleteAllOfType(rows, u, st, sid) ==
  {r \in rows : ~(r.userId = u /\ r.sourceType = st)}

\* deleteChunksForSource(userId, sourceType, sourceId?)
deleteChunksForSource(rows, u, st, sid) ==
  {r \in rows : ~(r.userId = u /\ r.sourceType = st
                  /\ (sid = Null \/ r.sourceId = sid))}

RECURSIVE UpsertFrom(_, _, _, _, _, _, _, _)
\* the loop of indexChunks from chunk i to chunk n of cs: embedText, then
\* upsertChunk; st is [rows, next], the store and its id serial
UpsertFrom(st, u, type, sid, title, cs, i, n) ==
  IF i > n THEN st
  ELSE LET rows == upsertChunk(st.rows, st.next, u, type, sid, title, cs[i].chunk)
       IN  UpsertFrom([rows |-> rows,
                       next |-> IF Cardinality(rows) > Cardinality(st.rows)
                                THEN st.next + 1 ELSE st.next],
                      u, type, sid, title, cs, i + 1, n)

\* indexChunks(userId, sourceType, sourceId, title, text) as far as its n-th
\* chunk: with n the number of chunks it resolves, with fewer the embedding
\* of chunk n + 1 fails and it rethrows
indexChunks(st, u, type, sid, title, text, n) ==
  UpsertFrom(st, u, type, sid, title, chunkText(text), 1, n)

\* indexLoreEntry(p) = indexChunks(p.userId, "lore", p.id, p.title, text)
indexLoreEntry(st, u, s, v, n) ==
  indexChunks(st, u, "lore", s, LoreTitle(s), LoreText(s, v), n)

\* ------------------------------------------------------------- job queue
Terminal == {"completed", "failed"}
JobIds == 1..Len(jobs)

\* execs, fails and rev are history: the executions begun, the failures
\* written, and the version of the lore row whose hook inserted the job.
\* payload forms: "ok" is JSON of the job type's shape; "shape" is JSON of
\* another shape (the indexer's insert is rejected by the store); "garbled"
\* is text that JSON.parse rejects
NewJob(u, type, form, sid, ver, rev, at) ==
  [userId |-> u, jobType |-> type,
   payload |-> [form |-> form, sourceId |-> sid, ver |-> ver],
   status |-> "pending", retryCount |-> 0, maxRetries |-> DefaultMaxRetries,
   error |-> FALSE, createdAt |-> at, processedAt |-> FALSE,
   execs |-> 0, fails |-> 0, rev |-> rev]

\* the history counters execs and fails stop one past the retry bound
Count(n) == IF n > DefaultMaxRetries THEN n ELSE n + 1

\* how far now() has advanced between two inserts: a later instant, or (two
\* requests at once) the same
Ticks == IF lim.ties THEN {0, 1} ELSE {1}

\* rows the pending update chains still have to insert
Reserved == Cardinality(hooks)

\* a foreground call of processPendingJobsForUser(u) in progress notes an
\* enqueue for u (history, for the drain's postcondition)
NoteEnqueue(u) ==
  [w \in Workers |->
     IF w # "loop" /\ wk[w].pc # "idle" /\ wk[w].user = u
     THEN [wk[w] EXCEPT !.enq = TRUE] ELSE wk[w]]

\* enqueueJob: insert ... values (userId, jobType, payload, "pending");
\* created_at defaults to now(), which has or has not advanced (tick)
enqueueJob(u, type, form, sid, ver, rev, tick) ==
  /\ clock' = clock + tick
  /\ jobs' = Append(jobs, NewJob(u, type, form, sid, ver, rev, clock + tick))
  /\ wk' = NoteEnqueue(u)

\* createLore and its onAfterCreate hook
CreateLore(s) ==
  /\ s \in lim.lore
  /\ lore[s] = 0
  /\ Len(jobs) + Reserved < lim.jobs
  /\ lore' = [lore EXCEPT ![s] = 1]
  /\ \E tick \in Ticks : enqueueJob(LoreOwner(s), "index_lore", "ok", s, 1, 1, tick)
  /\ UNCHANGED <<chunks, nextChunk, hooks, faults, lim, req, wr, ck, cacheVars, calls>>

\* updateLore and the first enqueue of its onAfterUpdate hook
UpdateLore(s) ==
  /\ lore[s] \in 1..(lim.ver - 1)
  /\ Len(jobs) + Reserved + 1 < lim.jobs
  /\ lore' = [lore EXCEPT ![s] = lore[s] + 1]
  /\ \E tick \in Ticks : enqueueJob(LoreOwner(s), "delete_chunks", "ok", s, 0, lore[s] + 1, tick)
  /\ hooks' = hooks \cup {[sourceId |-> s, ver |-> lore[s] + 1]}
  /\ UNCHANGED <<chunks, nextChunk, faults, lim, req, wr, ck, cacheVars, calls>>

\* the .then of onAfterUpdate: the index job, inserted after the delete job's
\* insert has returned
UpdateLoreThen(h) ==
  /\ h \in hooks
  /\ hooks' = hooks \ {h}
  /\ enqueueJob(LoreOwner(h.sourceId), "index_lore", "ok", h.sourceId, h.ver, h.ver, 1)
  /\ UNCHANGED <<chunks, nextChunk, lore, faults, lim, req, wr, ck, cacheVars, calls>>

\* a row with a data error: a job type outside JobType, or a payload that is
\* not the type's
EnqueueDataError(u, type, form) ==
  /\ Len(jobs) + Reserved < lim.jobs
  /\ \E tick \in Ticks : enqueueJob(u, type, form, 1, 1, 0, tick)
  /\ UNCHANGED <<chunks, nextChunk, lore, hooks, faults, lim, req, wr, ck, cacheVars, calls>>

\* ---------------------------------------------------------------- workers
Idle(w) ==
  [pc |-> IF w = "loop" THEN "poll" ELSE "idle", user |-> "u1", jid |-> 0,
   rc |-> 0, mr |-> 0, k |-> 0, atCall |-> {}, enq |-> FALSE,
   ord |-> TRUE, last |-> 0, processed |-> 0, ran |-> 0, budget |-> 0,
   running |-> TRUE]

\* a loop that ends where it should sleep
ThrownFatal(w) ==
  IF w = "loop" THEN [Idle(w) EXCEPT !.pc = "stopped", !.running = wk[w].running]
  ELSE Idle(w)

\* the caller's position after processJob / processNextJob rejected: the loop
\* logs and sleeps, the foreground call rejects
Thrown(w) ==
  IF w = "loop" THEN [Idle(w) EXCEPT !.pc = "sleep", !.running = wk[w].running]
  ELSE Idle(w)

\* while (running): the loop's next iteration begins, its select issued in
\* the same turn, or the loop ends
Iterate(w) == IF w = "loop" /\ ~wk[w].running THEN "stopped" ELSE "poll"

\* the caller's position after processJob resolved: the next iteration
\* (processed++ in processPendingJobsForUser)
Again(w) ==
  [wk[w] EXCEPT !.pc = Iterate(w), !.jid = 0, !.rc = 0, !.mr = 0, !.k = 0,
                !.processed = IF w = "loop" THEN 0 ELSE @ + 1]

\* where (status = pending [and userId = u])
Pending(w) ==
  {j \in JobIds : /\ jobs[j].status = "pending"
                  /\ (w = "loop" \/ jobs[j].userId = wk[w].user)}

\* order by created_at limit 1: a pending row no other pending row precedes
Oldest(S) == {j \in S : \A k \in S : jobs[j].createdAt <= jobs[k].createdAt}

RECURSIVE RetriesLeftFrom(_, _)
\* the attempts the unfinished jobs n, n - 1, ..., 1 of u have left (a job
\* another caller holds may come back to pending)
RetriesLeftFrom(u, n) ==
  IF n = 0 THEN 0
  ELSE RetriesLeftFrom(u, n - 1) +
       (IF jobs[n].status \in {"pending", "processing"} /\ jobs[n].userId = u
        THEN jobs[n].maxRetries - jobs[n].retryCount ELSE 0)

\* a call of processPendingJobsForUser(u); atCall and budget are history: the
\* jobs of u pending at the call and the attempts u's unfinished jobs have left
DrainCall(w, u) ==
  /\ w # "loop" /\ wk[w].pc = "idle"
  /\ wk' = [wk EXCEPT ![w] = [Idle(w) EXCEPT !.pc = "poll", !.user = u,
              !.atCall = {j \in JobIds : jobs[j].status = "pending"
                                          /\ jobs[j].userId = u},
              !.budget = RetriesLeftFrom(u, Len(jobs))]]
  /\ UNCHANGED <<jobs, clock, chunks, nextChunk, lore, hooks, faults, lim, req, wr, ck, cacheVars, calls>>

\* the select of processNextJob / processPendingJobsForUser finds a job
SelectJob(w) ==
  /\ wk[w].pc = "poll"
  /\ \E j \in Oldest(Pending(w)) :
       wk' = [wk EXCEPT ![w].pc = "sel", ![w].jid = j,
                        ![w].rc = jobs[j].retryCount,
                        ![w].mr = jobs[j].maxRetries,
                        ![w].ord = wk[w].ord /\ wk[w].last <= jobs[j].createdAt,
                        ![w].last = IF w = "loop" THEN 0 ELSE jobs[j].createdAt]
  /\ UNCHANGED <<jobs, clock, chunks, nextChunk, lore, hooks, faults, lim, req, wr, ck, cacheVars, calls>>

\* the select finds none: processNextJob returns false and the loop sleeps;
\* processPendingJobsForUser breaks and returns
SelectNone(w) ==
  /\ wk[w].pc = "poll"
  /\ Pending(w) = {}
  /\ wk' = [wk EXCEPT ![w] = Thrown(w)]
  /\ UNCHANGED <<jobs, clock, chunks, nextChunk, lore, hooks, faults, lim, req, wr, ck, cacheVars, calls>>

\* setTimeout(resolve, intervalMs) fires
Wake(w) ==
  /\ wk[w].pc = "sleep"
  /\ wk' = [wk EXCEPT ![w].pc = Iterate(w)]
  /\ UNCHANGED <<jobs, clock, chunks, nextChunk, lore, hooks, faults, lim, req, wr, ck, cacheVars, calls>>

\* update set status = processing where id = job.id, then processJob up to
\* its first await: JSON.parse (outside the try) and the switch; ran is
\* history: the executions this call of the drain has begun
MarkProcessing(w) ==
  /\ wk[w].pc = "sel"
  /\ LET j == wk[w].jid
         job == jobs[j]
     IN  /\ jobs' = [jobs EXCEPT ![j].status = "processing",
                                 ![j].execs = Count(job.execs)]
         /\ wk' = [wk EXCEPT ![w] =
                     IF job.payload.form = "garbled" THEN Thrown(w)
                     ELSE [wk[w] EXCEPT
                             !.pc = IF job.jobType \in {"index_lore", "delete_chunks"}
                                    THEN "run" ELSE "err",
                             !.ran = IF w = "loop" THEN 0 ELSE @ + 1]]
  /\ UNCHANGED <<clock, chunks, nextChunk, lore, hooks, faults, lim, req, wr, ck, cacheVars, calls>>

\* an indexer that stops after the first chunk
JobFirstChunk(job) ==
  SubSeq(chunkText(LoreText(job.payload.sourceId, job.payload.ver)), 1, 1)

\* the chunks an index_lore job upserts, in order
JobChunks(job) == chunkText(LoreText(job.payload.sourceId, job.payload.ver))

\* one iteration of indexChunks' loop: embedText, then upsertChunk. A payload
\* of another shape has no userId and the store rejects the insert.
IndexStep(w) ==
  /\ wk[w].pc = "run"
  /\ jobs[wk[w].jid].jobType = "index_lore"
  /\ LET job == jobs[wk[w].jid]
         cs == JobChunks(job)
         c == cs[wk[w].k + 1]
     IN  \/ /\ job.payload.form = "ok"
            /\ chunks' = upsertChunk(chunks, nextChunk, job.userId, "lore",
                                     job.payload.sourceId,
                                     LoreTitle(job.payload.sourceId), c.chunk)
            /\ nextChunk' = IF Cardinality(chunks') > Cardinality(chunks)
                             THEN nextChunk + 1 ELSE nextChunk
            /\ wk' = [wk EXCEPT ![w].k = wk[w].k + 1,
                                ![w].pc = IF wk[w].k + 1 = Len(cs) THEN "ok" ELSE "run"]
            /\ UNCHANGED faults
         \/ /\ job.payload.form = "shape"
            /\ wk' = [wk EXCEPT ![w].pc = "err"]
            /\ UNCHANGED <<chunks, nextChunk, faults, lim, req, wr, ck, cacheVars, calls>>
         \/ /\ job.payload.form = "ok"
            /\ faults < lim.faults
            /\ faults' = faults + 1
            /\ wk' = [wk EXCEPT ![w].pc = "err"]
            /\ UNCHANGED <<chunks, nextChunk>>
  /\ UNCHANGED <<jobs, clock, lore, hooks, lim, req, wr, ck, cacheVars, calls>>

\* case "delete_chunks": deleteChunksForSource(payload...)
DeleteStep(w) ==
  /\ wk[w].pc = "run"
  /\ jobs[wk[w].jid].jobType = "delete_chunks"
  /\ LET job == jobs[wk[w].jid]
     IN  \/ /\ chunks' = deleteChunksForSource(chunks, job.userId, "lore",
                                               job.payload.sourceId)
            /\ wk' = [wk EXCEPT ![w].pc = "ok"]
            /\ UNCHANGED faults
         \/ /\ faults < lim.faults
            /\ faults' = faults + 1
            /\ wk' = [wk EXCEPT ![w].pc = "err"]
            /\ UNCHANGED chunks
  /\ UNCHANGED <<jobs, clock, nextChunk, lore, hooks, lim, req, wr, ck, cacheVars, calls>>

\* the row after the update of the try block
Completed(job) == [job EXCEPT !.status = "completed", !.processedAt = TRUE]

\* the catch block giving up one attempt early
FailedEarly(job, rc, mr) ==
  LET newRetryCount == rc + 1
  IN  [job EXCEPT !.status = IF newRetryCount + 1 >= mr THEN "failed" ELSE "pending",
                  !.error = TRUE, !.retryCount = newRetryCount,
                  !.fails = Count(job.fails)]

\* the row after the update of the catch block, from the snapshot's
\* retryCount and maxRetries
Failed(job, rc, mr) ==
  LET newRetryCount == rc + 1
  IN  [job EXCEPT !.status = IF newRetryCount >= mr THEN "failed" ELSE "pending",
                  !.error = TRUE, !.retryCount = newRetryCount,
                  !.fails = Count(job.fails)]

\* "Mark as completed"; when the update itself fails the catch block runs
MarkCompleted(w) ==
  /\ wk[w].pc = "ok"
  /\ \/ /\ jobs' = [jobs EXCEPT ![wk[w].jid] = Completed(jobs[wk[w].jid])]
        /\ wk' = [wk EXCEPT ![w] = Again(w)]
        /\ UNCHANGED faults
     \/ /\ faults < lim.faults
        /\ faults' = faults + 1
        /\ wk' = [wk EXCEPT ![w].pc = "err"]
        /\ UNCHANGED jobs
  /\ UNCHANGED <<clock, chunks, nextChunk, lore, hooks, lim, req, wr, ck, cacheVars, calls>>

\* the catch block's update; when that update fails processJob rejects
MarkFailed(w) ==
  /\ wk[w].pc = "err"
  /\ \/ /\ jobs' = [jobs EXCEPT ![wk[w].jid] =
                      Failed(jobs[wk[w].jid], wk[w].rc, wk[w].mr)]
        /\ wk' = [wk EXCEPT ![w] = Again(w)]
        /\ UNCHANGED faults
     \/ /\ faults < lim.faults
        /\ faults' = faults + 1
        /\ wk' = [wk EXCEPT ![w] = Thrown(w)]
        /\ UNCHANGED jobs
  /\ UNCHANGED <<clock, chunks, nextChunk, lore, hooks, lim, req, wr, ck, cacheVars, calls>>

DataErrors == {<<"bogus", "ok">>, <<"index_lore", "shape">>, <<"index_lore", "garbled">>}

\* the callers of the indexer outside the queue and of the cached embedText
Writers == {"w1", "w2"}
Callers == {"c1", "c2"}

\* no call in flight
NoWriter == [pc |-> "idle", op |-> "none", type |-> "none", u |-> "u1", id |-> 0,
             name |-> 0, ver |-> 0, k |-> 0, last |-> "none"]
NoChunking == [ids |-> << >>, cfgTokens |-> 0, cfgOverlap |-> 0, out |-> << >>,
               called |-> FALSE, advance |-> 0, diverges |-> FALSE]
NoEmbed == [pc |-> "idle", text |-> [body |-> 1, form |-> "plain"],
            overlapped |-> FALSE]

\* the clients whose requests the handlers serve
Clients == {"r1", "r2"}
NoRequest == [pc |-> "idle"]

Start ==
  /\ req = [c \in Clients |-> NoRequest]
  /\ wr = [p \in Writers |-> NoWriter]
  /\ ck = NoChunking
  /\ cache = << >>
  /\ now = 0
  /\ emb = [p \in Callers |-> NoEmbed]
  /\ recency = << >>
  /\ nEmb = 0
  /\ jobs = << >>
  /\ clock = 1
  /\ chunks = {}
  /\ nextChunk = 1
  /\ lore = [s \in LoreIds |-> 0]
  /\ hooks = {}
  /\ wk = [w \in Workers |-> Idle(w)]
  /\ faults = 0
  /\ calls = << >>

\* enqueueJob's callers
Producers ==
  \/ \E s \in LoreIds : CreateLore(s)
  \/ \E d \in DataErrors : EnqueueDataError("u1", d[1], d[2])

\* the background loop of startJobProcessor: processNextJob, forever
LoopStep ==
  \/ SelectJob("loop")
  \/ SelectNone("loop")
  \/ Wake("loop")
  \/ MarkProcessing("loop")
  \/ IndexStep("loop")
  \/ MarkCompleted("loop")
  \/ MarkFailed("loop")

\* a foreground call of processPendingJobsForUser, once made
DrainStep ==
  \/ SelectJob("drain")
  \/ SelectNone("drain")
  \/ MarkProcessing("drain")
  \/ IndexStep("drain")
  \/ MarkCompleted("drain")
  \/ MarkFailed("drain")

\* the queue under create hooks and data errors
Init ==
  Start /\ lim = [jobs |-> MaxJobs, faults |-> MaxFaults, ver |-> 1,
                  lore |-> LoreIds, ties |-> FALSE]

Next ==
  \/ Producers
  \/ \E u \in Users : DrainCall("drain", u)
  \/ LoopStep
  \/ DrainStep

Spec == Init /\ [][Next]_vars

\* the same, the event loop running every task that can run
FairSpec == Spec /\ WF_vars(LoopStep) /\ WF_vars(DrainStep)

\* two rows in the queue, possibly of one instant
InitOrder ==
  Start /\ lim = [jobs |-> OrderJobs, faults |-> 0, ver |-> 1,
                  lore |-> LoreIds, ties |-> TRUE]

SpecOrder == InitOrder /\ [][Next]_vars

\* the queue under the create and update hooks of one lore row
InitReindex ==
  Start /\ lim = [jobs |-> ReindexJobs, faults |-> MaxFaults, ver |-> ReindexVer,
                  lore |-> {1}, ties |-> FALSE]

NextReindex ==
  \/ \E s \in LoreIds : CreateLore(s)
  \/ \E s \in LoreIds : UpdateLore(s)
  \/ \E h \in hooks : UpdateLoreThen(h)
  \/ \E u \in Users : DrainCall("drain", u)
  \/ LoopStep
  \/ DrainStep
  \/ \E w \in Workers : DeleteStep(w)

SpecReindex == InitReindex /\ [][NextReindex]_vars

\* ------------------------------------------------------------ properties
JobTypes == {"index_lore", "index_character", "index_message", "delete_chunks"}

\* worker w writes status = processing in this step
Claims(w) == wk[w].pc = "sel" /\ wk'[w].pc # "sel"


\* C1: every claim is a pending-to-processing transition of its job, made by
\* one caller: no caller marks a job processing that another caller has
\* claimed since it was last pending.
C1_ClaimedByOneCaller ==
  [][\A w \in Workers : Claims(w) => jobs[wk[w].jid].status = "pending"]_vars

\* C2: a job that has failed max_retries times is failed once that failure
\* is written, and a failed job is never claimed again.
C2_RetryExhaustion ==
  [][\A j \in JobIds :
       /\ (jobs'[j].fails # jobs[j].fails /\ jobs'[j].fails >= jobs'[j].maxRetries)
            => jobs'[j].status = "failed"
       /\ jobs[j].status = "failed"
            => \A w \in Workers : ~(Claims(w) /\ wk[w].jid = j)]_vars

\* C3: completed and failed are absorbing: no step changes the status,
\* retry_count or error of a job that is completed or failed.
C3_TerminalAbsorbing ==
  [][\A j \in JobIds :
       jobs[j].status \in Terminal =>
         /\ jobs'[j].status = jobs[j].status
         /\ jobs'[j].retryCount = jobs[j].retryCount
         /\ jobs'[j].error = jobs[j].error]_vars

\* C4: every enqueued job eventually is completed or failed.
C4_EveryJobTerminates ==
  \A j \in 1..MaxJobs :
    (j \in JobIds) ~> (j \in JobIds /\ jobs[j].status \in Terminal)

\* C5: retry_count never exceeds max_retries and no job is executed more
\* than max_retries times.
C5_RetriesBounded ==
  \A j \in JobIds : /\ jobs[j].retryCount <= jobs[j].maxRetries
                    /\ jobs[j].execs <= jobs[j].maxRetries

DataError(job) == job.jobType \notin JobTypes \/ job.payload.form # "ok"

\* C6: every execution of a job with a data error is counted: once no caller
\* is executing it, and no store failure was injected, its retry_count is the
\* number of its executions, the error is recorded, and after max_retries
\* executions it is failed.
C6_DataErrorConsumesRetry ==
  \A j \in JobIds :
    (/\ DataError(jobs[j])
     /\ faults = 0
     /\ jobs[j].execs >= 1
     /\ \A w \in Workers : ~(wk[w].jid = j /\ wk[w].pc \in {"sel", "run", "ok", "err"}))
    => /\ jobs[j].retryCount = jobs[j].execs
       /\ jobs[j].error
       /\ (jobs[j].execs >= jobs[j].maxRetries => jobs[j].status = "failed")

\* C7: when processNextJob claims a job no other pending job has a strictly
\* earlier created_at (for processPendingJobsForUser: no other pending job of
\* that owner), and no step changes a job's created_at.
C7_ClaimsOldestFirst ==
  [][/\ \A w \in Workers :
          Claims(w) =>
            \A k \in JobIds :
              (/\ k # wk[w].jid
               /\ jobs[k].status = "pending"
               /\ (w = "loop" \/ jobs[k].userId = wk[w].user))
                => jobs[k].createdAt >= jobs[wk[w].jid].createdAt
     /\ \A j \in JobIds : jobs'[j].createdAt = jobs[j].createdAt]_vars

\* C8: when processPendingJobsForUser(u) returns normally and no job of u was
\* enqueued during the call, no job of u is pending, every job of u that was
\* pending at the call is completed or failed, and the call took its jobs
\* oldest first.
C8_DrainLeavesNothingPending ==
  [][\A w \in Workers \ {"loop"} :
       (wk[w].pc = "poll" /\ wk'[w].pc = "idle" /\ ~wk[w].enq) =>
         /\ \A j \in JobIds :
              jobs'[j].userId = wk[w].user => jobs'[j].status # "pending"
         /\ \A j \in wk[w].atCall : jobs'[j].status \in Terminal
         /\ wk[w].ord]_vars

\* the rows of the store for lore row s
LoreRows(s) ==
  {r \in chunks : r.userId = LoreOwner(s) /\ r.sourceType = "lore" /\ r.sourceId = s}

\* the texts of the chunks of version v of lore row s
ChunkTexts(s, v) ==
  LET cs == chunkText(LoreText(s, v)) IN {cs[i].chunk : i \in 1..Len(cs)}

\* rows holds exactly one row for each chunk of version v of lore row s
ExactlyChunksOf(rows, s, v) ==
  /\ {r.content : r \in rows} = ChunkTexts(s, v)
  /\ Cardinality(rows) = Cardinality(ChunkTexts(s, v))

\* C9: once the delete_chunks job and the index job of the latest update of a
\* lore row have both completed, the store holds for that row exactly the
\* chunks of its current content.
C9_NoStaleChunksAfterUpdate ==
  \A s \in LoreIds :
    (/\ lore[s] >= 2
     /\ \E d \in JobIds : /\ jobs[d].jobType = "delete_chunks"
                          /\ jobs[d].payload.sourceId = s
                          /\ jobs[d].rev = lore[s]
                          /\ jobs[d].status = "completed"
     /\ \E i \in JobIds : /\ jobs[i].jobType = "index_lore"
                          /\ jobs[i].payload.sourceId = s
                          /\ jobs[i].payload.ver = lore[s]
                          /\ jobs[i].status = "completed")
    => ExactlyChunksOf(LoreRows(s), s, lore[s])

\* --------------------------------------------------------- direct indexing
\* the hooks of the controller that index without the queue, one call at a time
Store == [rows |-> chunks, next |-> nextChunk]

\* onAfterCreate: indexLoreEntry({userId, id, title, content}); n chunks are
\* upserted before the call resolves or rejects
DirectIndex(s, v, n) ==
  /\ Len(calls) < MaxCalls
  /\ n \in 0..Len(chunkText(LoreText(s, v)))
  /\ LET st == indexLoreEntry(Store, LoreOwner(s), s, v, n)
     IN  /\ chunks' = st.rows
         /\ nextChunk' = st.next
  /\ calls' = Append(calls, [op |-> "index", id |-> s, ver |-> v,
                             done |-> n = Len(chunkText(LoreText(s, v)))])
  /\ UNCHANGED <<jobs, clock, lore, hooks, wk, faults, lim, req, wr, ck, cacheVars>>

\* onAfterDelete: deleteChunksForSource(userId, "lore", id)
DirectDelete(s) ==
  /\ Len(calls) < MaxCalls
  /\ chunks' = deleteChunksForSource(chunks, LoreOwner(s), "lore", s)
  /\ calls' = Append(calls, [op |-> "delete", id |-> s, ver |-> 0, done |-> TRUE])
  /\ UNCHANGED <<jobs, clock, nextChunk, lore, hooks, wk, faults, lim, req, wr, ck, cacheVars>>

InitIndex ==
  Start /\ lim = [jobs |-> 0, faults |-> 0, ver |-> 1, lore |-> {}, ties |-> FALSE]

NextIndex ==
  \/ \E s \in LoreIds, v \in 1..IndexVer :
       \E n \in 0..Len(chunkText(LoreText(s, v))) : DirectIndex(s, v, n)
  \/ \E s \in LoreIds : DirectDelete(s)

SpecIndex == InitIndex /\ [][NextIndex]_vars

\* C10: a call of indexLoreEntry that follows a resolved call of
\* indexLoreEntry with the same id, title and content leaves the rows of the
\* store as they were, and the store holds one row for each chunk of the text.
C10_ReindexIdempotent ==
  [][(/\ calls # << >>
      /\ calls' = Append(calls, calls[Len(calls)])
      /\ calls[Len(calls)].op = "index"
      /\ calls[Len(calls)].done)
     => LET c == calls[Len(calls)]
        IN  /\ chunks' = chunks
            /\ \A t \in ChunkTexts(c.id, c.ver) :
                 Cardinality({r \in LoreRows(c.id)' : r.content = t}) = 1]_vars

\* a lore row of several chunks has been indexed twice in a row
C10_Witness ==
  /\ Len(calls) >= 2
  /\ calls[Len(calls)] = calls[Len(calls) - 1]
  /\ calls[Len(calls)].op = "index" /\ calls[Len(calls)].done
  /\ Cardinality(ChunkTexts(calls[Len(calls)].id, calls[Len(calls)].ver)) >= 2
  /\ Cardinality(LoreRows(calls[Len(calls)].id)) >= 2

\* ------------------------------------------------- the store's callers
MaxRows == 2          \* SpecStore: calls start while the id serial is within

CharIds == {1, 2}
\* the names character row c has had: row 1 was renamed
CharNames(c) == IF c = 1 THEN {1, 2} ELSE {3}
\* the user whose request creates character row c (characters.userId)
CharOwner(c) == "u1"
\* bio is null, or longer than one window
Bios == {0, 55}
Roles == {"user", "assistant"}
SourceTypes == {"lore", "character", "message"}

\* title: p.title ?? null, for message chunks
NoTitle == << >>

\* `Character: ${p.name}${p.bio ? `\n\nBio: ${p.bio}` : ""}`
CharText(name, bio) ==
  <<300, 200 + name>> \o (IF bio > 0 THEN <<0, 301>> \o [i \in 1..bio |-> 7] ELSE << >>)

\* `${prefix}: ${p.content}`, of the one message content of the model
MsgText(role) == <<IF role = "user" THEN 400 ELSE 401, 5>>

\* the text a call in flight chunks, and the key and title it upserts under
WrText(w) ==
  IF w.op = "lore" THEN LoreText(w.id, w.ver)
  ELSE IF w.op = "character" THEN CharText(w.name, w.ver)
  ELSE MsgText(w.name)
WrSourceId(w) == IF w.op = "message" THEN Null ELSE w.id
WrTitle(w) ==
  IF w.op = "lore" THEN LoreTitle(w.id)
  ELSE IF w.op = "character" THEN <<200 + w.name>>
  ELSE NoTitle

\* a call of the indexer or of deleteChunksForSource runs to its first await
StartCall(p, w) ==
  /\ wr[p].pc = "idle"
  /\ nextChunk <= MaxRows
  /\ wr' = [wr EXCEPT ![p] = [w EXCEPT !.pc = "run"]]
  /\ calls' = << >>
  /\ UNCHANGED <<jobs, clock, chunks, nextChunk, lore, hooks, wk, faults, lim, req,
                 ck, cacheVars>>

IndexLoreCall(p) ==
  \E s \in LoreIds, v \in 1..IndexVer :
    StartCall(p, [NoWriter EXCEPT !.op = "lore", !.type = "lore",
                                  !.u = LoreOwner(s), !.id = s, !.ver = v])

IndexCharacterCall(p) ==
  \E c \in CharIds, b \in Bios : \E n \in CharNames(c) :
    StartCall(p, [NoWriter EXCEPT !.op = "character", !.type = "character",
                                  !.u = CharOwner(c), !.id = c, !.name = n, !.ver = b])

IndexMessageCall(p) ==
  \E u \in Users, r \in Roles :
    StartCall(p, [NoWriter EXCEPT !.op = "message", !.type = "message",
                                  !.u = u, !.name = r])

DeleteCall(p) ==
  \E u \in Users, type \in SourceTypes, sid \in {1, 2, Null} :
    StartCall(p, [NoWriter EXCEPT !.op = "delete", !.type = type, !.u = u, !.id = sid])

\* the caller's record once its call has settled
Settled(how) == [NoWriter EXCEPT !.last = how]

\* one iteration of the indexer's loop: embedText, then upsertChunk
WriterUpsert(p) ==
  /\ wr[p].pc = "run"
  /\ wr[p].op \in {"lore", "character", "message"}
  /\ LET w == wr[p]
         cs == chunkText(WrText(w))
     IN  /\ chunks' = upsertChunk(chunks, nextChunk, w.u, w.type, WrSourceId(w),
                                  WrTitle(w), cs[w.k + 1].chunk)
         /\ nextChunk' = IF Cardinality(chunks') > Cardinality(chunks)
                          THEN nextChunk + 1 ELSE nextChunk
         /\ wr' = [wr EXCEPT ![p] = IF w.k + 1 = Len(cs) THEN Settled("resolved")
                                    ELSE [w EXCEPT !.k = w.k + 1]]
  /\ calls' = << >>
  /\ UNCHANGED <<jobs, clock, lore, hooks, wk, faults, lim, req, ck, cacheVars>>

\* embedText or the statement rejects: the catch block logs and rethrows
WriterThrows(p) ==
  /\ wr[p].pc = "run"
  /\ wr' = [wr EXCEPT ![p] = Settled("rejected")]
  /\ calls' = << >>
  /\ UNCHANGED <<jobs, clock, chunks, nextChunk, lore, hooks, wk, faults, lim, req,
                 ck, cacheVars>>

\* the delete statement of deleteChunksForSource; calls notes, while the
\* statement is the store's latest, what it removed and what it left
WriterDelete(p) ==
  /\ wr[p].pc = "run"
  /\ wr[p].op = "delete"
  /\ chunks' = deleteChunksForSource(chunks, wr[p].u, wr[p].type, wr[p].id)
  /\ wr' = [wr EXCEPT ![p] = Settled("resolved")]
  /\ calls' = <<[op |-> "delete", byId |-> wr[p].id # Null,
                 removed |-> chunks' # chunks,
                 sibling |-> \E r \in chunks' : /\ r.userId = wr[p].u
                                                /\ r.sourceType = wr[p].type]>>
  /\ UNCHANGED <<jobs, clock, nextChunk, lore, hooks, wk, faults, lim, req, ck, cacheVars>>

InitStore ==
  Start /\ lim = [jobs |-> 0, faults |-> 0, ver |-> 1, lore |-> {}, ties |-> FALSE]

NextStore ==
  \/ \E p \in Writers : IndexLoreCall(p)
  \/ \E p \in Writers : IndexCharacterCall(p)
  \/ \E p \in Writers : IndexMessageCall(p)
  \/ \E p \in Writers : DeleteCall(p)
  \/ \E p \in Writers : WriterUpsert(p)
  \/ \E p \in Writers : WriterThrows(p)
  \/ \E p \in Writers : WriterDelete(p)

SpecStore == InitStore /\ [][NextStore]_vars

\* the rows of the given key
KeyRows(rows, u, type, sid, h) ==
  {r \in rows : r.userId = u /\ r.sourceType = type /\ r.sourceId = sid /\ r.hash = h}

\* C11: no two rows of the chunk store agree on owner, source type, source id
\* and content hash, message chunks (source id null) included.
C11_UniqueKey ==
  \A r \in chunks : KeyRows(chunks, r.userId, r.sourceType, r.sourceId, r.hash) = {r}

\* worker p's delete statement runs in this step
Deletes(p) == wr[p].pc = "run" /\ wr[p].op = "delete" /\ wr'[p].last = "resolved"

\* C12: deleteChunksForSource(owner, type, id) removes every chunk of that
\* owner, type and source id and no other chunk; with a null id it removes
\* every chunk of that owner and type and no other chunk.
C12_DeleteFrame ==
  [][\A p \in Writers :
       Deletes(p) =>
         LET d == wr[p]
             InScope(r) == /\ r.userId = d.u
                           /\ r.sourceType = d.type
                           /\ (d.id # Null => r.sourceId = d.id)
         IN  /\ chunks' \subseteq chunks
             /\ \A r \in chunks : InScope(r) <=> r \notin chunks']_vars

\* a delete by id has removed rows and has left rows of the same owner and
\* type
C12_Witness ==
  /\ calls # << >>
  /\ calls[1].byId /\ calls[1].removed /\ calls[1].sibling

\* worker p's upsert statement runs in this step
Upserts(p) ==
  /\ wr[p].pc = "run" /\ wr[p].op # "delete"
  /\ wr'[p] # wr[p] /\ wr'[p].last # "rejected"

\* C13: an upsert leaves exactly one row of its key, carrying the writer's
\* mutable fields, whatever upserts of the same key arrived before it.
C13_OneRowPerKey ==
  [][\A p \in Writers :
       Upserts(p) =>
         LET w == wr[p]
             c == chunkText(WrText(w))[w.k + 1].chunk
             rows == KeyRows(chunks', w.u, w.type, WrSourceId(w), sha256(c))
         IN  /\ Cardinality(rows) = 1
             /\ \A r \in rows : r.title = WrTitle(w) /\ r.content = c]_vars

\* -------------------------------------------------------- embedding cache
CacheMaxSize == 2     \* CACHE_MAX_SIZE, scaled down
CacheTtl == 2         \* CACHE_TTL_MS, in ticks of Date.now()
MaxNow == 2           \* SpecCache: ticks of Date.now()
MaxEmbeds == 4        \* SpecCache: calls of embedText

\* texts: a body, as typed or in upper case or padded with blanks
Bodies == 1..(CacheMaxSize + 1)
Forms == {"plain", "upper", "padded"}
Texts == {t \in [body : Bodies, form : Forms] : t.form = "plain" \/ t.body = 1}

\* text.trim().toLowerCase()
CacheKey(text) == [text EXCEPT !.form = "plain"]

\* _embedText: the model's vector for the text as given
ModelVector(text) == <<"vec", text.body, text.form>>

\* Map: the position of key in the insertion order, 0 if absent
MapIndex(c, key) ==
  IF \E i \in 1..Len(c) : c[i].key = key
  THEN CHOOSE i \in 1..Len(c) : c[i].key = key ELSE 0
MapDelete(c, key) == SelectSeq(c, LAMBDA e : e.key # key)

\* LRUCache.get without its move to the end
PeekGet(c, key) ==
  [cache |-> c, hit |-> MapIndex(c, key) # 0,
   value |-> IF MapIndex(c, key) # 0 THEN c[MapIndex(c, key)] ELSE [key |-> key]]

\* LRUCache.get: the value, moved to the end
LruGet(c, key) ==
  LET i == MapIndex(c, key)
  IN  IF i # 0
      THEN [cache |-> Append(MapDelete(c, key), c[i]), hit |-> TRUE, value |-> c[i]]
      ELSE [cache |-> c, hit |-> FALSE, value |-> [key |-> key]]

\* LRUCache.set without its eviction
UnboundedSet(c, maxSize, e) == Append(MapDelete(c, e.key), e)

\* LRUCache.set
LruSet(c, maxSize, e) ==
  IF MapIndex(c, e.key) # 0 THEN Append(MapDelete(c, e.key), e)
  ELSE IF Len(c) >= maxSize THEN Append(Tail(c), e)
  ELSE Append(c, e)

\* the sweep's test with <= for <
SweepKeepsAtTtl(value, t) == t - value.timestamp <= CacheTtl

\* the sweep keeps: now - value.timestamp < CACHE_TTL_MS
SweepKeeps(value, t) == t - value.timestamp < CacheTtl

\* embedText's test with <= for <
UnexpiredAtTtl(cached, t) == t - cached.timestamp <= CacheTtl

\* embedText returns the cached vector: age < CACHE_TTL_MS
Unexpired(cached, t) == t - cached.timestamp < CacheTtl

RECURSIVE SweepFrom(_, _, _, _)
\* the sweep's loop over the entries taken before the clear
SweepFrom(c, entries, i, t) ==
  IF i > Len(entries) THEN c
  ELSE SweepFrom(IF SweepKeeps(entries[i], t) THEN LruSet(c, CacheMaxSize, entries[i]) ELSE c,
                 entries, i + 1, t)

\* history: key has just been read or written
Touch(r, key) == Append(SelectSeq(r, LAMBDA k : k # key), key)

\* embedText({text}) up to its return or its await of the model; calls notes
\* what a call returned, while that is the cache's latest statement
EmbedCall(p, text) ==
  /\ emb[p].pc = "idle"
  /\ nEmb < MaxEmbeds
  /\ nEmb' = nEmb + 1
  /\ LET g == LruGet(cache, CacheKey(text))
         inFlight == \E q \in Callers : emb[q].pc = "model"
         returns == g.hit /\ Unexpired(g.value, now)
     IN  /\ cache' = g.cache
         /\ recency' = IF g.hit THEN Touch(recency, CacheKey(text)) ELSE recency
         /\ emb' = [q \in Callers |->
                      IF q = p
                      THEN IF returns THEN NoEmbed
                           ELSE [pc |-> "model", text |-> text, overlapped |-> inFlight]
                      ELSE IF emb[q].pc = "model"
                           THEN [emb[q] EXCEPT !.overlapped = TRUE] ELSE emb[q]]
         /\ calls' = IF returns
                     THEN <<[op |-> "return", by |-> p, text |-> text,
                             ret |-> g.value.embedding, invoked |-> 0,
                             overlapped |-> inFlight, full |-> FALSE]>>
                     ELSE <<[op |-> "embed", by |-> p, text |-> text]>>
  /\ UNCHANGED <<jobs, clock, chunks, nextChunk, lore, hooks, wk, faults, lim, req, wr, ck, now>>

\* the model resolves: embeddingCache.set(cacheKey, {embedding, timestamp})
EmbedReturn(p) ==
  /\ emb[p].pc = "model"
  /\ LET key == CacheKey(emb[p].text)
         embedding == ModelVector(emb[p].text)
     IN  /\ cache' = LruSet(cache, CacheMaxSize,
                            [key |-> key, embedding |-> embedding, timestamp |-> now])
         /\ recency' = Touch(recency, key)
         /\ calls' = <<[op |-> "return", by |-> p, text |-> emb[p].text,
                        ret |-> embedding, invoked |-> 1,
                        overlapped |-> emb[p].overlapped,
                        full |-> MapIndex(cache, key) = 0 /\ Len(cache) >= CacheMaxSize]>>
  /\ emb' = [emb EXCEPT ![p] = NoEmbed]
  /\ UNCHANGED <<jobs, clock, chunks, nextChunk, lore, hooks, wk, faults, lim, req, wr, ck,
                 now, nEmb>>

\* the model rejects: embedText rejects and stores nothing
EmbedThrows(p) ==
  /\ emb[p].pc = "model"
  /\ emb' = [emb EXCEPT ![p] = NoEmbed]
  /\ calls' = <<[op |-> "throw", by |-> p, text |-> emb[p].text]>>
  /\ UNCHANGED <<jobs, clock, chunks, nextChunk, lore, hooks, wk, faults, lim, req, wr, ck,
                 cache, now, recency, nEmb>>

\* the setInterval callback
Sweep ==
  /\ cache' = SweepFrom(<< >>, cache, 1, now)
  /\ calls' = <<[op |-> "sweep", removed |-> Len(cache) - Len(cache')]>>
  /\ UNCHANGED <<jobs, clock, chunks, nextChunk, lore, hooks, wk, faults, lim, req, wr, ck,
                 now, emb, recency, nEmb>>

\* clearCache()
ClearCache ==
  /\ cache' = << >>
  /\ calls' = <<[op |-> "clear"]>>
  /\ UNCHANGED <<jobs, clock, chunks, nextChunk, lore, hooks, wk, faults, lim, req, wr, ck,
                 now, emb, recency, nEmb>>

\* Date.now() advances
Tick ==
  /\ now < MaxNow
  /\ now' = now + 1
  /\ calls' = << >>
  /\ UNCHANGED <<jobs, clock, chunks, nextChunk, lore, hooks, wk, faults, lim, req, wr, ck,
                 cache, emb, recency, nEmb>>

InitCache ==
  Start /\ lim = [jobs |-> 0, faults |-> 0, ver |-> 1, lore |-> {}, ties |-> FALSE]

NextCache ==
  \/ \E p \in Callers, text \in Texts : EmbedCall(p, text)
  \/ \E p \in Callers : EmbedReturn(p)
  \/ \E p \in Callers : EmbedThrows(p)
  \/ Sweep
  \/ ClearCache
  \/ Tick

SpecCache == InitCache /\ [][NextCache]_vars

CacheKeys(c) == {c[i].key : i \in 1..Len(c)}

\* C15: the cache never holds more entries than its capacity.
C15_WithinCapacity == Len(cache) <= CacheMaxSize

\* the cache is full after a call has stored a new key into the full cache
C15_Witness ==
  /\ Len(cache) = CacheMaxSize
  /\ nEmb > CacheMaxSize
  /\ calls # << >> /\ calls[1].op = "return" /\ calls[1].full

\* the model's vector is stored in this step
Stores == calls' # << >> /\ calls'[1].op = "return" /\ calls'[1].invoked = 1
          /\ emb[calls'[1].by].pc = "model"

\* the cached key whose latest read or write is the oldest
LeastRecent ==
  recency[CHOOSE i \in 1..Len(recency) :
            /\ recency[i] \in CacheKeys(cache)
            /\ \A j \in 1..(i - 1) : recency[j] \notin CacheKeys(cache)]

\* C14: a new key stored into a full cache evicts exactly the key whose
\* latest read or write is the oldest; a get of that key then misses and
\* every other entry is still there.
C14_EvictsLeastRecent ==
  [][(/\ Stores
      /\ CacheKey(calls'[1].text) \notin CacheKeys(cache)
      /\ Len(cache) = CacheMaxSize)
     => /\ CacheKeys(cache') =
             (CacheKeys(cache) \ {LeastRecent}) \cup {CacheKey(calls'[1].text)}
        /\ ~LruGet(cache', LeastRecent).hit
        /\ \A i \in 1..Len(cache) :
             cache[i].key # LeastRecent => \E j \in 1..Len(cache') : cache'[j] = cache[i]]_vars

\* a key has been evicted: it was read or written, the latest call filled
\* the full cache, and a get of it misses
C14_Witness ==
  /\ calls # << >> /\ calls[1].op = "return" /\ calls[1].full
  /\ Len(recency) > CacheMaxSize
  /\ \E i \in 1..Len(recency) : ~LruGet(cache, recency[i]).hit

\* C16: embedText returns the stored vector without invoking the model when
\* the cache holds an entry of the key younger than the TTL; otherwise it
\* invokes the model once and stores its vector under the key with the
\* time of the store.
C16_ModelIffMissOrStale ==
  [][/\ (nEmb' = nEmb + 1) =>
          LET c == calls'[1]
              i == MapIndex(cache, CacheKey(c.text))
          IN  IF i # 0 /\ now - cache[i].timestamp < CacheTtl
              THEN /\ c.op = "return" /\ c.invoked = 0
                   /\ c.ret = cache[i].embedding
                   /\ emb'[c.by].pc = "idle"
              ELSE /\ c.op = "embed"
                   /\ emb'[c.by].pc = "model"
     /\ Stores =>
          LET c == calls'[1]
              i == MapIndex(cache', CacheKey(c.text))
          IN  /\ c.ret = ModelVector(c.text)
              /\ i # 0
              /\ cache'[i].embedding = c.ret
              /\ cache'[i].timestamp = now
              /\ Cardinality({j \in 1..Len(cache') : cache'[j].key = CacheKey(c.text)}) = 1]_vars

\* a call has returned a stored vector without invoking the model
C16_Witness ==
  /\ calls # << >> /\ calls[1].op = "return" /\ calls[1].invoked = 0
  /\ now > 0

\* C17: every call of the cached embedText returns the vector the model
\* returns for the call's text.
C17_Transparent ==
  (calls # << >> /\ calls[1].op = "return") => calls[1].ret = ModelVector(calls[1].text)

C19_OverlapOnlyCostsCalls ==
  /\ (calls # << >> /\ calls[1].op = "return" /\ calls[1].overlapped)
       => calls[1].ret = ModelVector(calls[1].text)
  /\ Cardinality(CacheKeys(cache)) = Len(cache)
  /\ Len(cache) <= CacheMaxSize

\* ----------------------------------------------------------------- chunker
MaxTokens == 130      \* SpecChunk: tokens of the text chunked

\* the values of RAG_CHUNK_TOKENS and RAG_CHUNK_OVERLAP_TOKENS tried: token
\* counts below, at and above the floor of 50 and the defaults 240 and 40
ChunkSizes == {0, 1, 49, 50, 51, 64, 240}
ChunkOverlaps == {0, 1, 12, 13, 16, 40, 50, 64, 300}

\* the text of n tokens, each token its own position
TokensOf(n) == [i \in 1..n |-> i]

\* the loop's advance, i += max - overlap
ChunkAdvance(cfgTokens, cfgOverlap) ==
  ChunkMax(cfgTokens) - ChunkOverlap(cfgTokens, cfgOverlap)

\* chunkText(text) under a configuration, called once; with an advance below
\* one the loop never leaves a non-empty text and the call does not return
ChunkCall(n, cfgTokens, cfgOverlap) ==
  /\ ~ck.called
  /\ LET returns == n = 0 \/ ChunkAdvance(cfgTokens, cfgOverlap) >= 1
     IN  ck' = [ids |-> TokensOf(n), cfgTokens |-> cfgTokens, cfgOverlap |-> cfgOverlap,
                out |-> IF returns THEN ChunkTextCfg(TokensOf(n), cfgTokens, cfgOverlap)
                        ELSE << >>,
                called |-> TRUE, advance |-> ChunkAdvance(cfgTokens, cfgOverlap),
                diverges |-> ~returns]
  /\ UNCHANGED <<jobs, clock, chunks, nextChunk, lore, hooks, wk, faults, lim, req, calls,
                 wr, cacheVars>>

InitChunk ==
  Start /\ lim = [jobs |-> 0, faults |-> 0, ver |-> 1, lore |-> {}, ties |-> FALSE]

NextChunk ==
  \E n \in 0..MaxTokens, cfgTokens \in ChunkSizes, cfgOverlap \in ChunkOverlaps :
    ChunkCall(n, cfgTokens, cfgOverlap)

SpecChunk == InitChunk /\ [][NextChunk]_vars

\* the first and the last token position of the c-th chunk returned
FirstOf(c) == ck.out[c].chunk[1]
LastOf(c) == ck.out[c].chunk[Len(ck.out[c].chunk)]

C21_ShortInputOneChunk ==
  (ck.called /\ Len(ck.ids) < ChunkMax(ck.cfgTokens)) =>
    /\ Len(ck.out) = 1
    /\ ck.out[1].chunk = ck.ids
    /\ ck.out[1].tokens = Len(ck.ids)

\* C22: chunkText returns for every text and configuration: its window
\* advances by at least one token, and every chunk of a non-empty text has
\* between 1 and max tokens.
C22_ChunkerTerminates ==
  ck.called =>
    /\ ~ck.diverges
    /\ ck.advance >= 1
    /\ Len(ck.ids) > 0 =>
         \A c \in 1..Len(ck.out) :
           /\ ck.out[c].tokens = Len(ck.out[c].chunk)
           /\ 1 <= ck.out[c].tokens
           /\ ck.out[c].tokens <= ChunkMax(ck.cfgTokens)

\* a text of several chunks has been chunked under a configured overlap that
\* is not below the configured size
C22_Witness ==
  /\ ck.called
  /\ ck.cfgOverlap >= ck.cfgTokens /\ ck.cfgOverlap >= ChunkMax(ck.cfgTokens)
  /\ Len(ck.out) >= 2

\* --------------------------------------------------------------- retrieval
MaxStored == 2        \* SpecRetrieve: rows of rag_chunks
MaxTopK == 2          \* SpecRetrieve: the largest topK asked for

\* RAG_MIN_SCORE (0.5) and the distance cutoff 1 - ragMinScore, in hundredths
RagMinScore == 50
MaxDistance == 100 - RagMinScore

\* a row as upsertChunk leaves it; dist is the cosine distance of its
\* embedding to the query's (embedding <=> qEmb), in hundredths
StoredRow(id, u, type, chat, char, dist) ==
  [id |-> id, userId |-> u, sourceType |-> type,
   sourceId |-> IF type = "message" THEN Null ELSE id,
   chatId |-> chat, characterId |-> char,
   title |-> IF type = "message" THEN NoTitle ELSE <<"title", id>>,
   content |-> <<"content", id>>, dist |-> dist]

\* the rows the store may hold: two owners, three source types, distances at
\* both sides of the cutoff and equal distances
Catalogue ==
  { StoredRow(1, "u1", "lore", Null, Null, 20),
    StoredRow(2, "u1", "lore", Null, Null, 20),
    StoredRow(3, "u1", "lore", Null, Null, 50),
    StoredRow(4, "u1", "lore", Null, Null, 51),
    StoredRow(5, "u2", "lore", Null, Null, 10),
    StoredRow(6, "u1", "character", Null, 1, 30),
    StoredRow(7, "u1", "character", Null, 2, 20),
    StoredRow(8, "u2", "character", Null, 1, 10),
    StoredRow(9, "u1", "message", 1, 1, 20),
    StoredRow(10, "u1", "message", 1, 2, 30),
    StoredRow(11, "u1", "message", 2, 1, 10),
    StoredRow(12, "u2", "message", 1, 1, 5) }

\* the query embedded by every retrieval of the model
QueryText == [body |-> 1, form |-> "plain"]

\* p.chatId && ..., p.characterId ? ... : ...
Supplied(x) == x # Null /\ x # 0

\* fetchRanked were its where clause missing eq(userId)
CandidatesAnyOwner(rows, u, type, chat, char) ==
  {r \in rows : /\ r.sourceType = type
                /\ r.dist <= MaxDistance
                /\ (Supplied(chat) => r.chatId = chat)
                /\ (Supplied(char) => r.characterId = char)}

\* the where clause of fetchRanked: and(...base, eq(sourceType), distance <=
\* maxDistance, ...extra)
Candidates(rows, u, type, chat, char) ==
  {r \in rows : /\ r.userId = u
                /\ r.sourceType = type
                /\ r.dist <= MaxDistance
                /\ (Supplied(chat) => r.chatId = chat)
                /\ (Supplied(char) => r.characterId = char)}

\* limit(topK) without the order by
AnyLimit(S, k) ==
  LET m == Min2(k, Cardinality(S))
  IN  {s \in [1..m -> S] : \A i, j \in 1..m : i # j => s[i] # s[j]}

\* orderBy(distance).limit(topK): the rows of S in an order the database may
\* return them in (rows of equal distance in any order)
OrderByLimit(S, k) ==
  LET m == Min2(k, Cardinality(S))
  IN  {s \in [1..m -> S] :
         /\ \A i, j \in 1..m : i # j => s[i] # s[j]
         /\ \A i, j \in 1..m : i < j => s[i].dist <= s[j].dist
         /\ \A r \in S : (\A i \in 1..m : s[i] # r) => \A i \in 1..m : s[i].dist <= r.dist}

\* rows.map(r => ({title, content, score: 1 - r.distance}))
Scored(s) ==
  [i \in 1..Len(s) |-> [title |-> s[i].title, content |-> s[i].content,
                        score |-> 100 - s[i].dist]]

\* the results fetchRanked(type, extra) may resolve to
fetchRanked(rows, u, type, chat, char, topK) ==
  {Scored(s) : s \in OrderByLimit(Candidates(rows, u, type, chat, char), topK)}

\* the three buckets fetch without any extra condition
NoExtra(p, bucket) == [chat |-> Null, char |-> Null]

\* the extra conditions of each bucket's fetch
Extra(p, bucket) ==
  IF bucket = "lore" THEN [chat |-> Null, char |-> Null]
  ELSE IF bucket = "characters" THEN [chat |-> Null, char |-> p.characterId]
  ELSE [chat |-> p.chatId, char |-> p.characterId]

Buckets == {"lore", "characters", "memories"}
BucketType(bucket) ==
  IF bucket = "lore" THEN "lore"
  ELSE IF bucket = "characters" THEN "character" ELSE "message"

\* the results the fetch of a bucket may resolve to
FetchBucket(rows, p, bucket) ==
  fetchRanked(rows, p.userId, BucketType(bucket), Extra(p, bucket).chat,
              Extra(p, bucket).char, p.topK)

\* strings are sequences of tokens: a section header, an item line
\* `(${i + 1}) ${title}: ${content}`, "\n" within and "\n\n" between sections

\* c.title ?? "Character", c.title ?? "Lore"; memory items print no title
ItemTitle(kind, c) ==
  IF kind = "memories" THEN NoTitle
  ELSE IF c.title # NoTitle THEN c.title
  ELSE IF kind = "characters" THEN <<"Character", 0>> ELSE <<"Lore", 0>>

RECURSIVE NumberedFrom(_, _, _)
\* b.map((c, i) => `(${i + 1}) ...`).join("\n") from item i
NumberedFrom(kind, b, i) ==
  IF i > Len(b) THEN << >>
  ELSE (IF i > 1 THEN <<[t |-> "nl"]>> ELSE << >>)
       \o <<[t |-> "item", n |-> i, title |-> ItemTitle(kind, b[i]),
             content |-> b[i].content]>>
       \o NumberedFrom(kind, b, i + 1)

\* `${header}:\n${items}` of a bucket, pushed if the bucket has entries
Section(kind, b) ==
  IF Len(b) > 0
  THEN <<<<[t |-> "header", of |-> kind], [t |-> "nl"]>> \o NumberedFrom(kind, b, 1)>>
  ELSE << >>

RECURSIVE JoinFrom(_, _)
\* parts.join("\n\n") from part i
JoinFrom(parts, i) ==
  IF i > Len(parts) THEN << >>
  ELSE (IF i > 1 THEN <<[t |-> "sep"]>> ELSE << >>) \o parts[i] \o JoinFrom(parts, i + 1)

\* composeRagSystemPrompt with the lore section pushed first
ComposeLoreFirst(r) ==
  JoinFrom(Section("lore", r.lore) \o Section("characters", r.characters)
           \o Section("memories", r.memories), 1)

composeRagSystemPrompt(r) ==
  JoinFrom(Section("characters", r.characters) \o Section("lore", r.lore)
           \o Section("memories", r.memories), 1)

\* the parameters of a retrieval: owner, conversation, persona, lore scope
\* and topK
RetrieveParams ==
  [userId : Users, chatId : {Null, 1}, characterId : {Null, 1},
   loreIds : {Null, 3}, topK : {1, MaxTopK}]

NoBuckets == [lore |-> << >>, characters |-> << >>, memories |-> << >>]

\* an upsert inserts a row
StoreRow(r) ==
  /\ r \notin chunks
  /\ Cardinality(chunks) < MaxStored
  /\ chunks' = chunks \cup {r}
  /\ calls' = << >>
  /\ UNCHANGED <<jobs, clock, nextChunk, lore, hooks, wk, faults, lim, req, wr, ck,
                 cacheVars>>

\* retrieveRAGContext(p) up to the await of embedText: the cache is read and,
\* unless it holds a young entry, the model is called; while the model is
\* awaited, before is the cache as the call found it
RetrieveCall(c, p) ==
  /\ req[c].pc = "idle"
  /\ LET g == LruGet(cache, CacheKey(QueryText))
         returns == g.hit /\ Unexpired(g.value, now)
     IN  /\ cache' = g.cache
         /\ recency' = IF g.hit THEN Touch(recency, CacheKey(QueryText)) ELSE recency
         /\ req' = [req EXCEPT ![c] = [pc |-> IF returns THEN "fetch" ELSE "model",
                                       p |-> p, todo |-> Buckets, got |-> NoBuckets,
                                       before |-> IF returns THEN << >> ELSE cache]]
  /\ calls' = <<[op |-> "call", by |-> c]>>
  /\ UNCHANGED <<jobs, clock, chunks, nextChunk, lore, hooks, wk, faults, lim, wr, ck,
                 now, emb, nEmb>>

\* the model resolves: the vector is cached and the three fetches are issued
RetrieveEmbedded(c) ==
  /\ req[c].pc = "model"
  /\ cache' = LruSet(cache, CacheMaxSize,
                     [key |-> CacheKey(QueryText), embedding |-> ModelVector(QueryText),
                      timestamp |-> now])
  /\ recency' = Touch(recency, CacheKey(QueryText))
  /\ req' = [req EXCEPT ![c].pc = "fetch", ![c].before = << >>]
  /\ calls' = << >>
  /\ UNCHANGED <<jobs, clock, chunks, nextChunk, lore, hooks, wk, faults, lim, wr, ck,
                 now, emb, nEmb>>

\* the model rejects and embedText caches an empty vector for the key
RetrieveEmbedThrowsStoring(c) ==
  /\ req[c].pc = "model"
  /\ req' = [req EXCEPT ![c] = NoRequest]
  /\ cache' = LruSet(cache, CacheMaxSize,
                     [key |-> CacheKey(QueryText), embedding |-> << >>, timestamp |-> now])
  /\ recency' = Touch(recency, CacheKey(QueryText))
  /\ calls' = <<[op |-> "retrieved", by |-> c, p |-> req[c].p, error |-> TRUE,
                 bucket |-> "none", entries |-> << >>, before |-> req[c].before,
                 result |-> NoBuckets, prompt |-> << >>]>>
  /\ UNCHANGED <<jobs, clock, chunks, nextChunk, lore, hooks, wk, faults, lim, wr, ck,
                 now, emb, nEmb>>

\* the model rejects: embedText rejects and so does retrieveRAGContext;
\* calls notes the cache as the call found it
RetrieveEmbedThrows(c) ==
  /\ req[c].pc = "model"
  /\ req' = [req EXCEPT ![c] = NoRequest]
  /\ calls' = <<[op |-> "retrieved", by |-> c, p |-> req[c].p, error |-> TRUE,
                 bucket |-> "none", entries |-> << >>, before |-> req[c].before,
                 result |-> NoBuckets, prompt |-> << >>]>>
  /\ UNCHANGED <<jobs, clock, chunks, nextChunk, lore, hooks, wk, faults, lim, wr, ck,
                 cacheVars>>

\* one of the three selects of Promise.all resolves; with the last one
\* retrieveRAGContext returns and its caller composes the prompt
FetchRanked(c, bucket) ==
  /\ req[c].pc = "fetch"
  /\ bucket \in req[c].todo
  /\ \E b \in FetchBucket(chunks, req[c].p, bucket) :
       LET got == [req[c].got EXCEPT ![bucket] = b]
           last == req[c].todo = {bucket}
       IN  /\ req' = [req EXCEPT ![c] = IF last THEN NoRequest
                                        ELSE [req[c] EXCEPT !.todo = req[c].todo \ {bucket},
                                                            !.got = got]]
           /\ calls' = <<[op |-> IF last THEN "retrieved" ELSE "fetched", by |-> c,
                          p |-> req[c].p, error |-> FALSE, bucket |-> bucket,
                          entries |-> b,
                          result |-> IF last THEN got ELSE NoBuckets,
                          prompt |-> IF last THEN composeRagSystemPrompt(got) ELSE << >>]>>
  /\ UNCHANGED <<jobs, clock, chunks, nextChunk, lore, hooks, wk, faults, lim, wr, ck,
                 cacheVars>>

InitRetrieve ==
  Start /\ lim = [jobs |-> 0, faults |-> 0, ver |-> 1, lore |-> {}, ties |-> FALSE]

NextRetrieve ==
  \/ \E r \in Catalogue : StoreRow(r)
  \/ \E p \in RetrieveParams : RetrieveCall("r1", p)
  \/ RetrieveEmbedded("r1")
  \/ RetrieveEmbedThrows("r1")
  \/ \E bucket \in Buckets : FetchRanked("r1", bucket)
  \/ Tick

SpecRetrieve == InitRetrieve /\ [][NextRetrieve]_vars


\* a select of a retrieval has resolved in this step
Fetches ==
  /\ calls' # << >>
  /\ calls'[1].op \in {"fetched", "retrieved"}
  /\ ~calls'[1].error

\* the rows of the store a returned entry may come from
RowsOf(rows, e) == {r \in rows : r.content = e.content /\ r.title = e.title}

OwnedBy(rows, u) == {r \in rows : r.userId = u}

\* C23: every entry a fetch of retrieve(owner, ...) returns is the content
\* of a chunk of that owner, and the fetch could have returned the same
\* entries from the store without the chunks of all other owners
C23_OwnerIsolation ==
  [][Fetches =>
       LET f == calls'[1]
       IN  /\ \A i \in 1..Len(f.entries) :
                /\ RowsOf(chunks, f.entries[i]) # {}
                /\ \A r \in RowsOf(chunks, f.entries[i]) : r.userId = f.p.userId
           /\ f.entries \in FetchBucket(OwnedBy(chunks, f.p.userId), f.p, f.bucket)
           /\ FetchBucket(chunks, f.p, f.bucket)
                = FetchBucket(OwnedBy(chunks, f.p.userId), f.p, f.bucket)]_vars

\* a retrieval has returned an entry of its owner from a store that also
\* holds a nearer chunk of the same type of another owner
C23_Witness ==
  /\ calls # << >> /\ calls[1].op = "retrieved" /\ ~calls[1].error
  /\ Len(calls[1].entries) > 0
  /\ \E r \in chunks : /\ r.userId # calls[1].p.userId
                       /\ r.sourceType = BucketType(calls[1].bucket)
                       /\ r.dist <= MaxDistance
                       /\ 100 - r.dist > calls[1].entries[1].score


\* the chunks a bucket of retrieve(p) draws from: the owner's chunks of the
\* bucket's type, of the persona and the conversation where the bucket is
\* restricted to them
InScope(rows, p, bucket) ==
  {r \in rows :
     /\ r.userId = p.userId
     /\ r.sourceType = BucketType(bucket)
     /\ (bucket \in {"characters", "memories"} /\ p.characterId # Null)
          => r.characterId = p.characterId
     /\ (bucket = "memories" /\ p.chatId # Null) => r.chatId = p.chatId}

\* the chunks of rows that a returned bucket holds no entry of
LeftOut(rows, entries) ==
  {r \in rows : \A i \in 1..Len(entries) : entries[i].content # r.content}

C25_BucketScopes ==
  [][Fetches =>
       LET f == calls'[1]
       IN  /\ \A i \in 1..Len(f.entries) :
                /\ RowsOf(chunks, f.entries[i]) # {}
                /\ RowsOf(chunks, f.entries[i]) \subseteq InScope(chunks, f.p, f.bucket)
           /\ Len(f.entries) < f.p.topK =>
                \A r \in LeftOut(InScope(chunks, f.p, f.bucket), f.entries) :
                  r.dist > MaxDistance]_vars

\* a retrieval with a lore scope, a persona and a conversation has returned
\* a lore chunk outside the lore scope
C25_Witness ==
  /\ calls # << >> /\ calls[1].op = "retrieved" /\ ~calls[1].error
  /\ calls[1].p.loreIds # Null /\ calls[1].p.characterId # Null
  /\ calls[1].p.chatId # Null
  /\ \E i \in 1..Len(calls[1].result.lore) :
       \A r \in RowsOf(chunks, calls[1].result.lore[i]) : r.id # calls[1].p.loreIds


\* ------------------------------------------------------------ prompt block
MaxItems == 2         \* SpecCompose: entries of a bucket

\* entries of a retrieval's buckets, with and without a title
Entries ==
  { [title |-> <<"title", 1>>, content |-> <<"content", 1>>, score |-> 80],
    [title |-> NoTitle, content |-> <<"content", 2>>, score |-> 60] }

\* the buckets composeRagSystemPrompt may be handed
Results ==
  LET lists == UNION {[1..k -> Entries] : k \in 0..MaxItems}
  IN  [lore : lists, characters : lists, memories : lists]

\* composeRagSystemPrompt(r), called once
ComposeCall(r) ==
  /\ calls = << >>
  /\ calls' = <<[op |-> "composed", result |-> r, prompt |-> composeRagSystemPrompt(r)]>>
  /\ UNCHANGED <<jobs, clock, chunks, nextChunk, lore, hooks, wk, faults, lim, req, wr, ck,
                 cacheVars>>

InitCompose ==
  Start /\ lim = [jobs |-> 0, faults |-> 0, ver |-> 1, lore |-> {}, ties |-> FALSE]

NextCompose == \E r \in Results : ComposeCall(r)

SpecCompose == InitCompose /\ [][NextCompose]_vars

\* the sections of a prompt, in the order of their headers
HeadersOf(prompt) ==
  LET hs == SelectSeq(prompt, LAMBDA x : x.t = "header")
  IN  [i \in 1..Len(hs) |-> hs[i].of]

\* the item lines of the section of a prompt under the header of a kind:
\* those between the header and the next blank line
ItemsUnder(prompt, kind) ==
  LET h == CHOOSE i \in 1..Len(prompt) :
             prompt[i].t = "header" /\ prompt[i].of = kind
      ends == {i \in (h + 1)..Len(prompt) : prompt[i].t = "sep"}
      end == IF ends = {} THEN Len(prompt) + 1
             ELSE CHOOSE i \in ends : \A j \in ends : i <= j
  IN  SelectSeq(SubSeq(prompt, h + 1, end - 1), LAMBDA x : x.t = "item")

\* C26: the composed prompt has a section for exactly the non-empty buckets,
\* in the order character context, lore, conversation memory; the items of a
\* section are the bucket's entries in bucket order, numbered from 1; and
\* three empty buckets compose to the empty string
C26_SectionsInOrder ==
  (calls # << >> /\ calls[1].op = "composed") =>
    LET r == calls[1].result
        prompt == calls[1].prompt
    IN  /\ HeadersOf(prompt)
             = SelectSeq(<<"characters", "lore", "memories">>, LAMBDA k : Len(r[k]) > 0)
        /\ \A k \in Buckets :
             Len(r[k]) > 0 =>
               LET items == ItemsUnder(prompt, k)
               IN  /\ Len(items) = Len(r[k])
                   /\ \A i \in 1..Len(items) :
                        items[i].n = i /\ items[i].content = r[k][i].content
        /\ (\A k \in Buckets : Len(r[k]) = 0) => prompt = << >>

\* three buckets of several entries have been composed
C26_Witness ==
  /\ calls # << >> /\ calls[1].op = "composed"
  /\ \A k \in Buckets : Len(calls[1].result[k]) = MaxItems
  /\ Len(HeadersOf(calls[1].prompt)) = 3


\* the entries a cache holds
EntriesOf(c) == {c[i] : i \in 1..Len(c)}

\* a retrieval fails in this step: its query's embedding was rejected
RetrieveFails ==
  /\ calls' # << >>
  /\ calls'[1].op = "retrieved"
  /\ calls'[1].error

MaxDim == 3           \* SpecCosine: components of a vector

\* natural numbers beyond the checker's integers: little-endian sequences of
\* limbs below Base, the highest limb non-zero, << >> for zero
Base == 8192
LimbBits == 13

RECURSIVE Pow2(_)
Pow2(k) == IF k = 0 THEN 1 ELSE 2 * Pow2(k - 1)

RECURSIVE BigTrim(_)
BigTrim(a) ==
  IF a = << >> \/ a[Len(a)] # 0 THEN a ELSE BigTrim(SubSeq(a, 1, Len(a) - 1))

RECURSIVE BigOfInt(_)
BigOfInt(n) == IF n = 0 THEN << >> ELSE <<n % Base>> \o BigOfInt(n \div Base)

Limb(a, i) == IF i >= 1 /\ i <= Len(a) THEN a[i] ELSE 0

RECURSIVE BigCmpFrom(_, _, _)
BigCmpFrom(a, b, i) ==
  IF i = 0 THEN 0
  ELSE IF a[i] < b[i] THEN -1
  ELSE IF a[i] > b[i] THEN 1
  ELSE BigCmpFrom(a, b, i - 1)

\* -1, 0 or 1 as a < b, a = b or a > b
BigCmp(a, b) ==
  IF Len(a) < Len(b) THEN -1
  ELSE IF Len(a) > Len(b) THEN 1
  ELSE BigCmpFrom(a, b, Len(a))

RECURSIVE BigAddFrom(_, _, _, _)
BigAddFrom(a, b, i, carry) ==
  IF i > Len(a) /\ i > Len(b)
  THEN IF carry = 0 THEN << >> ELSE <<carry>>
  ELSE LET t == Limb(a, i) + Limb(b, i) + carry
       IN  <<t % Base>> \o BigAddFrom(a, b, i + 1, t \div Base)

BigAdd(a, b) == BigAddFrom(a, b, 1, 0)

RECURSIVE BigSubFrom(_, _, _, _)
BigSubFrom(a, b, i, borrow) ==
  IF i > Len(a) THEN << >>
  ELSE LET t == Limb(a, i) - Limb(b, i) - borrow
       IN  <<IF t < 0 THEN t + Base ELSE t>>
           \o BigSubFrom(a, b, i + 1, IF t < 0 THEN 1 ELSE 0)

\* a - b for a >= b
BigSub(a, b) == BigTrim(BigSubFrom(a, b, 1, 0))

RECURSIVE Column(_, _, _, _)
\* the sum of a[i] * b[k + 1 - i] over i
Column(a, b, k, i) ==
  IF i > Len(a) THEN 0
  ELSE Limb(a, i) * Limb(b, k + 1 - i) + Column(a, b, k, i + 1)

RECURSIVE BigMulFrom(_, _, _, _)
BigMulFrom(a, b, k, carry) ==
  IF k > Len(a) + Len(b) THEN << >>
  ELSE LET t == Column(a, b, k, 1) + carry
       IN  <<t % Base>> \o BigMulFrom(a, b, k + 1, t \div Base)

BigMul(a, b) == BigTrim(BigMulFrom(a, b, 1, 0))

\* 2^k
BigPow2(k) ==
  [i \in 1..(k \div LimbBits + 1) |->
     IF i = k \div LimbBits + 1 THEN Pow2(k % LimbBits) ELSE 0]

\* a * 2^k
BigShl(a, k) == BigMul(a, BigPow2(k))

\* floor(a / 2^k)
BigShr(a, k) ==
  LET q == k \div LimbBits
      r == k % LimbBits
  IN  BigTrim([i \in 1..Max2(Len(a) - q, 0) |->
                 (a[i + q] \div Pow2(r))
                   + (Limb(a, i + q + 1) % Pow2(r)) * Pow2(LimbBits - r)])

RECURSIVE BitLen(_)
BitLen(n) == IF n = 0 THEN 0 ELSE 1 + BitLen(n \div 2)

\* the number of bits of a
BigBitLen(a) ==
  IF a = << >> THEN 0 ELSE (Len(a) - 1) * LimbBits + BitLen(a[Len(a)])

\* bit k of a, bit 0 the lowest
BigBit(a, k) == (Limb(a, k \div LimbBits + 1) \div Pow2(k % LimbBits)) % 2

RECURSIVE IsqrtFrom(_)
\* the largest r with r * r <= n, settled bit by bit from bit k down
IsqrtFrom(s) ==
  IF s.k < 0 THEN s.r
  ELSE LET c == BigAdd(s.r, BigPow2(s.k))
       IN  IsqrtFrom(IF BigCmp(BigMul(c, c), s.n) <= 0
                     THEN [s EXCEPT !.k = s.k - 1, !.r = c]
                     ELSE [s EXCEPT !.k = s.k - 1])

BigIsqrt(n) == IsqrtFrom([n |-> n, k |-> BigBitLen(n) \div 2, r |-> << >>])

RECURSIVE DivFrom(_)
\* floor(n / d) and the remainder, bit by bit from bit k of n down; s holds
\* the quotient and the remainder of the bits above k
DivFrom(s) ==
  IF s.k < 0 THEN s
  ELSE LET r2 == BigTrim(BigAdd(BigAdd(s.r, s.r), BigOfInt(BigBit(s.n, s.k))))
           q2 == BigAdd(s.q, s.q)
       IN  DivFrom(IF BigCmp(r2, s.d) >= 0
                   THEN [s EXCEPT !.k = s.k - 1, !.q = BigAdd(q2, BigOfInt(1)),
                                  !.r = BigSub(r2, s.d)]
                   ELSE [s EXCEPT !.k = s.k - 1, !.q = q2, !.r = r2])

BigDivMod(n, d) ==
  DivFrom([n |-> n, d |-> d, k |-> BigBitLen(n) - 1, q |-> << >>, r |-> << >>])

\* a JavaScript number (IEEE 754 binary64) other than NaN, the infinities
\* and the subnormals: sign * m * 2^e with m of MantissaBits bits, or zero
MantissaBits == 53
Zero == [sign |-> 0, m |-> << >>, e |-> 0]

\* n * 2^e (+ a little if sticky) rounded to nearest, ties to even
RoundNearestEven(n, e, sticky) ==
  LET len == BigBitLen(n)
      sh == len - MantissaBits
  IN  IF sh <= 0 THEN [m |-> BigShl(n, 0 - sh), e |-> e + sh]
      ELSE LET q == BigShr(n, sh)
               half == BigBit(n, sh - 1) = 1
               rest == sticky \/ BigShl(BigShr(n, sh - 1), sh - 1) # n
               up == half /\ (rest \/ BigBit(q, 0) = 1)
               q1 == IF up THEN BigAdd(q, BigOfInt(1)) ELSE q
           IN  IF BigBitLen(q1) > MantissaBits
               THEN [m |-> BigShr(q1, 1), e |-> e + sh + 1]
               ELSE [m |-> q1, e |-> e + sh]

\* Math.sqrt(n) of an integer n >= 1
FSqrt(n) ==
  LET big == BigShl(BigOfInt(n), 120)
      r == BigIsqrt(big)
      f == RoundNearestEven(r, -60, BigMul(r, r) # big)
  IN  [sign |-> 1, m |-> f.m, e |-> f.e]

\* x * y of positive numbers
FMul(x, y) ==
  LET f == RoundNearestEven(BigMul(x.m, y.m), x.e + y.e, FALSE)
  IN  [sign |-> 1, m |-> f.m, e |-> f.e]

\* d / y of an integer d and a positive number y
FDivInt(d, y) ==
  IF d = 0 THEN Zero
  ELSE LET abs == IF d < 0 THEN 0 - d ELSE d
           qr == BigDivMod(BigShl(BigOfInt(abs), 120), y.m)
           f == RoundNearestEven(qr.q, -120 - y.e, qr.r # << >>)
       IN  [sign |-> IF d < 0 THEN -1 ELSE 1, m |-> f.m, e |-> f.e]

\* -1, 0 or 1 as |x| < 1, |x| = 1 or |x| > 1
CmpOne(x) ==
  IF x.m = << >> THEN -1
  ELSE IF x.e + MantissaBits - 1 < 0 THEN -1
  ELSE IF x.e + MantissaBits - 1 > 0 THEN 1
  ELSE IF x.m = BigPow2(MantissaBits - 1) THEN 0 ELSE 1

RECURSIVE DotFrom(_, _, _)
\* the loop of cosine from index i: sums of products of integer components,
\* exact in doubles
DotFrom(a, b, i) ==
  IF i > Min2(Len(a), Len(b)) THEN 0
  ELSE a[i] * b[i] + DotFrom(a, b, i + 1)

\* the prefix of a that the loop reads
Prefix(a, b) == SubSeq(a, 1, Min2(Len(a), Len(b)))

\* the vectors cosine is called with: integer components, up to MaxDim of
\* them, the two vectors not always of one length
Components == {-1, 0, 1}
Vectors == UNION {[1..k -> Components] : k \in 0..MaxDim}

\* Math.sqrt(n) and dot / (Math.sqrt(na) * Math.sqrt(nb)), worked out once for each value of
\* dot, na and nb that the vectors give
Roots == [n \in 1..MaxDim |-> FSqrt(n)]
Quotient ==
  [na \in 1..MaxDim |-> [nb \in 1..MaxDim |->
     [dot \in (0 - Min2(na, nb))..Min2(na, nb) |->
        FDivInt(dot, FMul(Roots[na], Roots[nb]))]]]

\* cosine(a, b)
cosine(a, b) ==
  LET dot == DotFrom(a, b, 1)
      na == DotFrom(Prefix(a, b), Prefix(a, b), 1)
      nb == DotFrom(Prefix(b, a), Prefix(b, a), 1)
  IN  IF na # 0 /\ nb # 0 THEN Quotient[na][nb][dot] ELSE Zero

\* cosine(a, b), called once
CosineCall(a, b) ==
  /\ calls = << >>
  /\ calls' = <<[op |-> "cosine", a |-> a, b |-> b, ret |-> cosine(a, b)]>>
  /\ UNCHANGED <<jobs, clock, chunks, nextChunk, lore, hooks, wk, faults, lim, req, wr, ck,
                 cacheVars>>

InitCosine ==
  Start /\ lim = [jobs |-> 0, faults |-> 0, ver |-> 1, lore |-> {}, ties |-> FALSE]

NextCosine == \E a \in Vectors : \E b \in Vectors : CosineCall(a, b)

SpecCosine == InitCosine /\ [][NextCosine]_vars

AllZero(a) == \A i \in 1..Len(a) : a[i] = 0

\* C27: cosine(a, b) lies in [-1, 1], cosine(a, a) is 1 for a non-zero a,
\* and cosine(a, b) is 0 when a or b is all zero
C27_CosineBounds ==
  (calls # << >> /\ calls[1].op = "cosine") =>
    LET c == calls[1]
    IN  /\ CmpOne(c.ret) <= 0
        /\ (c.a = c.b /\ ~AllZero(c.a)) => (c.ret.sign = 1 /\ CmpOne(c.ret) = 0)
        /\ (AllZero(c.a) \/ AllZero(c.b)) => c.ret = Zero


\* ------------------------------------------------------------- write path
MaxWriteJobs == 4     \* SpecWrite: rows of indexing_jobs
MaxWriteVer == 2      \* SpecWrite: versions of a lore row

\* the handlers of createCrudHandlers
CrudOps == {"create", "update", "delete"}

\* the enqueueJob a hook has called and not yet seen settle: delete_chunks
\* with an index_lore chained behind it (onAfterUpdate), or a single job
Hook(c, s, ver, type, chained, status) ==
  [by |-> c, sourceId |-> s, ver |-> ver, type |-> type, chained |-> chained,
   status |-> status]

\* a handler that awaited its hook before answering
HookAwaited(c, h) ==
  /\ hooks' = hooks \cup {h}
  /\ req' = [req EXCEPT ![c].pc = "hook"]
  /\ calls' = << >>

\* onAfter...?.(user.id, row); return json(...): the hook calls enqueueJob,
\* whose insert is left in flight, and the handler answers in the same turn
HookThenRespond(c, h) ==
  /\ hooks' = hooks \cup {h}
  /\ req' = [req EXCEPT ![c] = NoRequest]
  /\ calls' = <<[op |-> "response", by |-> c, status |-> h.status]>>

\* a request reaches a handler, which awaits its statement on the table
HandlerCall(c, op, s) ==
  /\ req[c].pc = "idle"
  /\ \A h \in hooks : h.by # c
  /\ Len(jobs) + 2 * (Cardinality(hooks)
                       + Cardinality({d \in Clients : req[d].pc # "idle"}) + 1)
       <= lim.jobs
  /\ req' = [req EXCEPT ![c] = [pc |-> "write", op |-> op, s |-> s]]
  /\ calls' = << >>
  /\ UNCHANGED <<jobs, clock, chunks, nextChunk, lore, hooks, wk, faults, lim, wr, ck,
                 cacheVars>>

\* create: the insert returns the row; the hook is called and 201 returned
CreateCommits(c) ==
  /\ req[c].pc = "write" /\ req[c].op = "create"
  /\ lore[req[c].s] = 0
  /\ lore' = [lore EXCEPT ![req[c].s] = 1]
  /\ HookThenRespond(c, Hook(c, req[c].s, 1, "index_lore", FALSE, 201))
  /\ UNCHANGED <<jobs, clock, chunks, nextChunk, wk, faults, lim, wr, ck, cacheVars>>

\* update: the update returns the row, or none and the handler answers 404
UpdateCommits(c) ==
  /\ req[c].pc = "write" /\ req[c].op = "update"
  /\ LET s == req[c].s
         ver == Min2(lore[s] + 1, lim.ver)
     IN  IF lore[s] > 0
         THEN /\ lore' = [lore EXCEPT ![s] = ver]
              /\ HookThenRespond(c, Hook(c, s, ver, "delete_chunks", TRUE, 200))
         ELSE /\ req' = [req EXCEPT ![c] = NoRequest]
              /\ calls' = <<[op |-> "response", by |-> c, status |-> 404]>>
              /\ UNCHANGED <<lore, hooks>>
  /\ UNCHANGED <<jobs, clock, chunks, nextChunk, wk, faults, lim, wr, ck, cacheVars>>

\* delete: the delete returns the id, or none and the handler answers 404
DeleteCommits(c) ==
  /\ req[c].pc = "write" /\ req[c].op = "delete"
  /\ LET s == req[c].s
     IN  IF lore[s] > 0
         THEN /\ lore' = [lore EXCEPT ![s] = 0]
              /\ HookThenRespond(c, Hook(c, s, 0, "delete_chunks", FALSE, 200))
         ELSE /\ req' = [req EXCEPT ![c] = NoRequest]
              /\ calls' = <<[op |-> "response", by |-> c, status |-> 404]>>
              /\ UNCHANGED <<lore, hooks>>
  /\ UNCHANGED <<jobs, clock, chunks, nextChunk, wk, faults, lim, wr, ck, cacheVars>>

\* the handler's statement on the table rejects, and so does the handler:
\* nothing is written and no hook is called
WriteRejects(c) ==
  /\ req[c].pc = "write"
  /\ req' = [req EXCEPT ![c] = NoRequest]
  /\ calls' = <<[op |-> "response", by |-> c, status |-> 500]>>
  /\ UNCHANGED <<jobs, clock, chunks, nextChunk, lore, hooks, wk, faults, lim, wr, ck,
                 cacheVars>>

\* the insert of a hook's enqueueJob returns; an update's hook goes on to
\* enqueue the index job (.then)
EnqueueResolves(h) ==
  /\ h \in hooks
  /\ enqueueJob(LoreOwner(h.sourceId), h.type, "ok", h.sourceId, h.ver, h.ver, 1)
  /\ hooks' = (hooks \ {h})
                \cup (IF h.chained
                      THEN {Hook(h.by, h.sourceId, h.ver, "index_lore", FALSE, h.status)}
                      ELSE {})
  /\ calls' = << >>
  /\ UNCHANGED <<chunks, nextChunk, lore, faults, lim, req, wr, ck, cacheVars>>

\* the insert of a hook's enqueueJob rejects: .catch logs it and the chain
\* ends
EnqueueRejects(h) ==
  /\ h \in hooks
  /\ hooks' = hooks \ {h}
  /\ calls' = <<[op |-> "logged", hook |-> h]>>
  /\ UNCHANGED <<jobs, clock, chunks, nextChunk, lore, wk, faults, lim, req, wr, ck,
                 cacheVars>>

\* the lore handlers over the queue and its background loop
InitWrite ==
  Start /\ lim = [jobs |-> MaxWriteJobs, faults |-> MaxFaults, ver |-> MaxWriteVer,
                  lore |-> LoreIds, ties |-> FALSE]

NextWrite ==
  \/ \E c \in Clients, op \in CrudOps, s \in LoreIds : HandlerCall(c, op, s)
  \/ \E c \in Clients : CreateCommits(c)
  \/ \E c \in Clients : UpdateCommits(c)
  \/ \E c \in Clients : DeleteCommits(c)
  \/ \E c \in Clients : WriteRejects(c)
  \/ \E h \in hooks : EnqueueResolves(h)
  \/ \E h \in hooks : EnqueueRejects(h)
  \/ LoopStep
  \/ DeleteStep("loop")

SpecWrite == InitWrite /\ [][NextWrite]_vars


\* a handler's statement has written the lore table in this step
Commits == lore' # lore

\* client c is given a response of one of the statuses in this step
Responds(c, statuses) ==
  /\ req[c].pc # "idle" /\ req'[c].pc = "idle"
  /\ calls' # << >> /\ calls'[1].op = "response"
  /\ calls'[1].by = c /\ calls'[1].status \in statuses

\* an enqueue or the indexing of a job fails in this step
IndexingFails ==
  \/ hooks' # hooks /\ hooks' \subseteq hooks /\ jobs' = jobs
  \/ faults' # faults

\* C28: the step that commits a create, update or delete of a lore row gives
\* its client the success response while the hook's enqueue is still in
\* flight; a failing enqueue or indexing step neither touches the table nor
\* answers or holds up any request; and a request is only ever refused when
\* its own statement wrote nothing
C28_WritesDecoupled ==
  [][/\ Commits =>
          \E c \in Clients :
            /\ Responds(c, {200, 201})
            /\ \E h \in hooks' \ hooks : h.by = c
     /\ IndexingFails => (lore' = lore /\ req' = req)
     /\ (\E c \in Clients : Responds(c, {404, 500})) => lore' = lore]_vars

\* a create was answered 201 and the enqueue of its index job has then
\* been rejected: the row is there, no job for it is
C28_Witness ==
  /\ calls # << >> /\ calls[1].op = "logged"
  /\ calls[1].hook.status = 201
  /\ lore[calls[1].hook.sourceId] >= 1
  /\ \A j \in JobIds : jobs[j].payload.sourceId # calls[1].hook.sourceId


\* ------------------------------------------------- failures while indexing
IndexFaults == 2      \* SpecRetry: statements that fail

\* the queue with one job, under two failing statements
InitRetry ==
  Start /\ lim = [jobs |-> MaxJobs, faults |-> IndexFaults, ver |-> 1,
                  lore |-> LoreIds, ties |-> FALSE]

SpecRetry == InitRetry /\ [][Next]_vars

\* worker w has run the catch block's update for an execution whose indexing
\* threw: an index_lore job of a well-formed payload, stopped before its
\* last chunk
IndexFailureHandled(w) ==
  /\ wk[w].pc = "err" /\ wk'[w] = Again(w)
  /\ jobs[wk[w].jid].jobType = "index_lore"
  /\ jobs[wk[w].jid].payload.form = "ok"
  /\ wk[w].k < Len(JobChunks(jobs[wk[w].jid]))

\* C29: when the embedding or an upsert of an index job's execution fails,
\* that execution does not complete the job: its outcome write raises the
\* job's retry_count by one, records the error and leaves the job pending,
\* or failed once retry_count has reached max_retries
C29_IndexFailureReachesQueue ==
  [][\A w \in Workers :
       IndexFailureHandled(w) =>
         LET j == wk[w].jid
         IN  /\ jobs'[j].retryCount = jobs[j].retryCount + 1
             /\ jobs'[j].error
             /\ jobs'[j].status =
                  IF jobs'[j].retryCount >= jobs'[j].maxRetries THEN "failed"
                  ELSE "pending"]_vars


\* ------------------------------------------------------ fields of a job
\* C36: every job's status is pending, processing, completed or failed; a
\* failed job has retry_count >= max_retries and an error recorded; a
\* completed job has processed_at set; a job of retry_count 0 has no error
\* recorded
C36_FieldsMatchStatus ==
  \A j \in JobIds :
    /\ jobs[j].status \in {"pending", "processing", "completed", "failed"}
    /\ jobs[j].status = "failed" =>
         (jobs[j].retryCount >= jobs[j].maxRetries /\ jobs[j].error)
    /\ jobs[j].status = "completed" => jobs[j].processedAt
    /\ jobs[j].retryCount = 0 => ~jobs[j].error

\* a job has failed for good after two callers have executed it, the later
\* outcome written from a snapshot older than the stored row
C36_Witness ==
  \E j \in JobIds :
    /\ jobs[j].status = "failed"
    /\ jobs[j].fails > jobs[j].retryCount


\* ------------------------------------------------ enqueue, then processNext
FreshJobs == 2

\* enqueueJob(userId, "index_lore", {userId, id, title, content}) by a caller
\* that holds version v of lore row s
EnqueueIndexLore(s, v) ==
  /\ Len(jobs) < lim.jobs
  /\ enqueueJob(LoreOwner(s), "index_lore", "ok", s, v, v, 1)
  /\ UNCHANGED <<chunks, nextChunk, lore, hooks, faults, lim, req, wr, ck, cacheVars, calls>>

InitFresh ==
  Start /\ lim = [jobs |-> FreshJobs, faults |-> MaxFaults, ver |-> IndexVer,
                  lore |-> LoreIds, ties |-> FALSE]

NextFresh ==
  \/ \E s \in LoreIds, v \in 1..IndexVer : EnqueueIndexLore(s, v)
  \/ LoopStep

\* index_lore jobs under the background loop alone
SpecFresh == InitFresh /\ [][NextFresh]_vars

\* the loop's processNextJob returns true in this step, its index_lore job's
\* execution having succeeded
ProcessNextSucceeds ==
  /\ wk["loop"].pc = "ok" /\ wk'["loop"] = Again("loop")
  /\ jobs[wk["loop"].jid].jobType = "index_lore"

\* C34: when processNextJob has executed an enqueued index_lore job with
\* success it returns true, the job is completed, and the store holds a row
\* for the lore entry: one for each distinct chunk of title, blank line,
\* content, each of the job's owner, of source type lore, of the entry's id
\* and title
C34_EnqueueThenProcess ==
  [][ProcessNextSucceeds =>
       LET j == wk["loop"].jid
           s == jobs[j].payload.sourceId
           v == jobs[j].payload.ver
       IN  /\ jobs'[j].status = "completed"
           /\ wk'["loop"].pc = "poll"
           /\ ChunkTexts(s, v) # {}
           /\ \A t \in ChunkTexts(s, v) :
                Cardinality({r \in chunks' : /\ r.content = t
                                             /\ r.userId = jobs[j].userId
                                             /\ r.sourceType = "lore"
                                             /\ r.sourceId = s
                                             /\ r.title = LoreTitle(s)}) = 1]_vars

\* the loop has completed, in its first execution, the index_lore job of a
\* text of several chunks, and no other job is pending
C34_Witness ==
  \E j \in JobIds :
    /\ jobs[j].status = "completed" /\ jobs[j].execs = 1
    /\ jobs[j].jobType = "index_lore"
    /\ \A k \in JobIds : jobs[k].status # "pending"
    /\ wk["loop"].pc = "poll" /\ wk["drain"].pc = "idle"
    /\ Cardinality(ChunkTexts(jobs[j].payload.sourceId, jobs[j].payload.ver)) >= 2
    /\ Cardinality(LoreRows(jobs[j].payload.sourceId)) >= 2


\* ------------------------------------------------------ the drain's count
\* processPendingJobsForUser returns in this step
DrainReturns == wk["drain"].pc = "poll" /\ wk'["drain"].pc = "idle"

\* C35: a call of processPendingJobsForUser ends, every job failing every
\* attempt included; when no job of the owner was enqueued during the call
\* it has begun no more executions than the attempts the owner's unfinished
\* jobs had left at the call, and the count it returns is the number of
\* executions it has performed
C35_DrainBounded ==
  /\ (wk["drain"].pc # "idle") ~> (wk["drain"].pc = "idle")
  /\ [][DrainReturns =>
          /\ wk["drain"].processed = wk["drain"].ran
          /\ ~wk["drain"].enq => wk["drain"].ran <= wk["drain"].budget]_vars


\* ------------------------------------------------- a deleted lore entry
\* the jobs enqueued for lore row s
JobsOf(s) ==
  {j \in JobIds : /\ jobs[j].payload.sourceId = s /\ jobs[j].payload.form = "ok"
                  /\ jobs[j].jobType \in {"index_lore", "delete_chunks"}}

\* lore row s was created once and has been deleted, the job of its delete
\* hook is in the queue, no hook of s has an insert in flight, and every job
\* enqueued for s is completed or failed
DeletedAndSettled(s) ==
  /\ lore[s] = 0
  /\ \A h \in hooks : h.sourceId # s
  /\ \E j \in JobsOf(s) : jobs[j].jobType = "delete_chunks" /\ jobs[j].payload.ver = 0
  /\ Cardinality({j \in JobsOf(s) : jobs[j].jobType = "index_lore"
                                     /\ jobs[j].payload.ver = 1}) <= 1
  /\ \A j \in JobsOf(s) : jobs[j].status \in Terminal

\* C39: once a lore entry is deleted and every job enqueued for it is
\* completed or failed, the store holds no chunk of that owner, source type
\* lore and that source id
C39_NoChunksAfterDelete ==
  \A s \in LoreIds : DeletedAndSettled(s) => LoreRows(s) = {}


\* ------------------------------------------------ executing a job again
\* the indexer's call of p upserts in this step a chunk the store already
\* holds for its source: an earlier execution has written it
UpsertsAgain(p) ==
  /\ wr[p].pc = "run" /\ wr'[p] # wr[p]
  /\ wr[p].op \in {"lore", "character", "message"}
  /\ \E r \in chunks :
       /\ r.userId = wr[p].u /\ r.sourceType = wr[p].type
       /\ r.sourceId = WrSourceId(wr[p])
       /\ r.content = chunkText(WrText(wr[p]))[wr[p].k + 1].chunk

\* C37: executing an index_lore, index_character or index_message job again
\* leaves the rows of a single execution: an upsert of a chunk the store
\* already holds for the source adds no row
C37_ReexecutionIdempotent ==
  [][\A p \in Writers :
       UpsertsAgain(p) => Cardinality(chunks') <= Cardinality(chunks)]_vars


\* ------------------------------------------ updates in the direct mode
DirectVer == 3

\* createLore with the direct hook, its indexLoreEntry run to its end before
\* the next request
CreateLoreDirect(s) ==
  /\ lore[s] = 0
  /\ \A p \in Writers : wr[p].pc = "idle"
  /\ lore' = [lore EXCEPT ![s] = 1]
  /\ LET st == indexLoreEntry(Store, LoreOwner(s), s, 1,
                              Len(chunkText(LoreText(s, 1))))
     IN  chunks' = st.rows /\ nextChunk' = st.next
  /\ calls' = << >>
  /\ UNCHANGED <<jobs, clock, hooks, wk, faults, lim, req, wr, ck, cacheVars>>

\* updateLore with the direct hook: the row is updated and onAfterUpdate
\* starts deleteChunksForSource(...).then(() => indexLoreEntry(...)), a task
\* nobody awaits
UpdateLoreDirect(p, s) ==
  /\ wr[p].pc = "idle"
  /\ lore[s] \in 1..(DirectVer - 1)
  /\ lore' = [lore EXCEPT ![s] = lore[s] + 1]
  /\ wr' = [wr EXCEPT ![p] = [NoWriter EXCEPT !.pc = "run", !.op = "update",
                                              !.type = "lore", !.u = LoreOwner(s),
                                              !.id = s, !.ver = lore[s] + 1]]
  /\ calls' = << >>
  /\ UNCHANGED <<jobs, clock, chunks, nextChunk, hooks, wk, faults, lim, req, ck,
                 cacheVars>>

\* the task's delete statement; its .then starts indexLoreEntry of the row
\* the hook was given
UpdateDeletes(p) ==
  /\ wr[p].pc = "run" /\ wr[p].op = "update"
  /\ chunks' = deleteChunksForSource(chunks, wr[p].u, "lore", wr[p].id)
  /\ wr' = [wr EXCEPT ![p].op = "lore"]
  /\ calls' = << >>
  /\ UNCHANGED <<jobs, clock, nextChunk, lore, hooks, wk, faults, lim, req, ck, cacheVars>>

InitDirect ==
  Start /\ lim = [jobs |-> 0, faults |-> 0, ver |-> DirectVer, lore |-> LoreIds,
                  ties |-> FALSE]

NextDirect ==
  \/ \E s \in LoreIds : CreateLoreDirect(s)
  \/ \E p \in Writers, s \in LoreIds : UpdateLoreDirect(p, s)
  \/ \E p \in Writers : UpdateDeletes(p)
  \/ \E p \in Writers : WriterUpsert(p)

\* the update tasks of the direct mode, every statement succeeding
SpecDirect == InitDirect /\ [][NextDirect]_vars

\* C38: in the direct mode, once the delete-then-index tasks of the updates
\* of a lore row have all finished, the store holds for that row only chunks
\* of its latest content
C38_DirectUpdatesConverge ==
  (\A p \in Writers : wr[p].pc = "idle") =>
    \A s \in LoreIds :
      lore[s] > 0 => \A r \in LoreRows(s) : r.content \in ChunkTexts(s, lore[s])


\* ------------------------------------------------------ reindexAllForUser
FirstDriftId == 1
DeletedChar == 3

\* the characters table: the name and bio of row c (row 1 was renamed from
\* name 1 and has a bio longer than a window, row 2 has no bio)
CharRows == CharIds
CharName(c) == IF c = 1 THEN 2 ELSE 3
CharBio(c) == IF c = 1 THEN 55 ELSE 0

\* indexCharacterBio(p) = indexChunks(p.userId, "character", p.id, p.name, text)
indexCharacterBio(st, u, c, name, bio, n) ==
  indexChunks(st, u, "character", c, <<200 + name>>, CharText(name, bio), n)

\* the rows an earlier indexLoreEntry wrote for version v of lore row s
LoreRowsWritten(s, v, next) ==
  indexLoreEntry([rows |-> {}, next |-> next], LoreOwner(s), s, v,
                 Len(chunkText(LoreText(s, v)))).rows

\* rows the store may hold when reindexAllForUser is called: chunks of the
\* current and of earlier contents of lore rows, of character row 1 under
\* its old name, of a character row that was deleted, and message chunks
DriftRows ==
  LoreRowsWritten(1, 1, FirstDriftId) \cup LoreRowsWritten(1, 2, FirstDriftId + 1)
    \cup LoreRowsWritten(2, 1, FirstDriftId + 3)
    \cup indexCharacterBio([rows |-> {}, next |-> FirstDriftId + 4], "u1", 1, 1, 0, 1).rows
    \cup indexCharacterBio([rows |-> {}, next |-> FirstDriftId + 5], "u1", DeletedChar,
                           3, 0, 1).rows
    \cup upsertChunk({}, FirstDriftId + 6, "u1", "message", Null, NoTitle,
                     chunkText(MsgText("user"))[1].chunk)
    \cup upsertChunk({}, FirstDriftId + 7, "u2", "message", Null, NoTitle,
                     chunkText(MsgText("user"))[1].chunk)

\* one iteration of the lore loop without its delete
ReindexLoreKeeping(st, u, s) ==
  indexLoreEntry(st, u, s, lore[s], Len(chunkText(LoreText(s, lore[s]))))

\* one iteration of the lore loop: deleteChunksForSource, then indexLoreEntry
ReindexLore(st, u, s) ==
  indexLoreEntry([rows |-> deleteChunksForSource(st.rows, u, "lore", s),
                  next |-> st.next],
                 u, s, lore[s], Len(chunkText(LoreText(s, lore[s]))))

\* one iteration of the character loop
ReindexCharacter(st, u, c) ==
  indexCharacterBio([rows |-> deleteChunksForSource(st.rows, u, "character", c),
                     next |-> st.next],
                    u, c, CharName(c), CharBio(c),
                    Len(chunkText(CharText(CharName(c), CharBio(c)))))

RECURSIVE ReindexLoreFrom(_, _, _)
\* for (const r of loreRows), the rows taken by ascending id
ReindexLoreFrom(st, u, todo) ==
  IF todo = {} THEN st
  ELSE LET s == CHOOSE x \in todo : \A y \in todo : x <= y
       IN  ReindexLoreFrom(ReindexLore(st, u, s), u, todo \ {s})

RECURSIVE ReindexCharactersFrom(_, _, _)
\* for (const r of charRows)
ReindexCharactersFrom(st, u, todo) ==
  IF todo = {} THEN st
  ELSE LET c == CHOOSE x \in todo : \A y \in todo : x <= y
       IN  ReindexCharactersFrom(ReindexCharacter(st, u, c), u, todo \ {c})

\* reindexAllForUser(userId), every statement succeeding
reindexAllForUser(st, u) ==
  ReindexCharactersFrom(
    ReindexLoreFrom(st, u, {s \in LoreIds : lore[s] > 0 /\ LoreOwner(s) = u}),
    u, {c \in CharRows : CharOwner(c) = u})

\* a call of reindexAllForUser(u) that resolves, nothing else writing; calls
\* notes whether the store held a chunk of an earlier content of a lore row
\* of u
ReindexAllCall(u) ==
  /\ calls = << >>
  /\ LET st == reindexAllForUser(Store, u)
     IN  chunks' = st.rows /\ nextChunk' = st.next
  /\ calls' = <<[op |-> "reindexAll", userId |-> u,
                 stale |-> \E r \in chunks :
                             /\ r.userId = u /\ r.sourceType = "lore"
                             /\ lore[r.sourceId] > 0
                             /\ r.content \notin ChunkTexts(r.sourceId, lore[r.sourceId])]>>
  /\ UNCHANGED <<jobs, clock, lore, hooks, wk, faults, lim, req, wr, ck, cacheVars>>

InitReindexAll ==
  /\ req = [c \in Clients |-> NoRequest]
  /\ wr = [p \in Writers |-> NoWriter]
  /\ ck = NoChunking
  /\ cache = << >>
  /\ now = 0
  /\ emb = [p \in Callers |-> NoEmbed]
  /\ recency = << >>
  /\ nEmb = 0
  /\ jobs = << >>
  /\ clock = 1
  /\ chunks \in SUBSET DriftRows
  /\ nextChunk = FirstDriftId + 8
  /\ lore \in [LoreIds -> 0..IndexVer]
  /\ hooks = {}
  /\ wk = [w \in Workers |-> Idle(w)]
  /\ faults = 0
  /\ calls = << >>
  /\ lim = [jobs |-> 0, faults |-> 0, ver |-> IndexVer, lore |-> LoreIds, ties |-> FALSE]

NextReindexAll == \E u \in Users : ReindexAllCall(u)

SpecReindexAll == InitReindexAll /\ [][NextReindexAll]_vars

\* reindexAllForUser(u) resolves in this step
ReindexedAll(u) ==
  calls = << >> /\ calls' # << >> /\ calls'[1].op = "reindexAll" /\ calls'[1].userId = u

\* the rows of rows for source (u, type, sid)
SourceRows(rows, u, type, sid) ==
  {r \in rows : r.userId = u /\ r.sourceType = type /\ r.sourceId = sid}

\* the texts of the chunks of character row c
CharChunkTexts(c) ==
  LET cs == chunkText(CharText(CharName(c), CharBio(c)))
  IN  {cs[i].chunk : i \in 1..Len(cs)}

\* C33: when reindexAllForUser(u) has resolved, nothing else writing, the
\* store holds for every lore row and every character row of u exactly the
\* chunks of the row's current content, and the message chunks of u and the
\* chunks of other users are as they were
C33_ReindexAllExact ==
  [][\A u \in Users :
       ReindexedAll(u) =>
         /\ \A s \in LoreIds :
              (lore[s] > 0 /\ LoreOwner(s) = u) =>
                ExactlyChunksOf(SourceRows(chunks', u, "lore", s), s, lore[s])
         /\ \A c \in CharRows :
              CharOwner(c) = u =>
                /\ {r.content : r \in SourceRows(chunks', u, "character", c)}
                     = CharChunkTexts(c)
                /\ Cardinality(SourceRows(chunks', u, "character", c))
                     = Cardinality(CharChunkTexts(c))
         /\ {r \in chunks' : r.userId # u \/ r.sourceType = "message"}
              = {r \in chunks : r.userId # u \/ r.sourceType = "message"}]_vars

\* reindexAllForUser("u1") has run on a store that held a chunk of an
\* earlier content of lore row 1, whose content now has several chunks, and
\* a message chunk of u1 and a chunk of u2 are in the store
C33_Witness ==
  /\ calls # << >> /\ calls[1].op = "reindexAll" /\ calls[1].userId = "u1"
  /\ calls[1].stale
  /\ lore[1] = 2
  /\ Cardinality(SourceRows(chunks, "u1", "lore", 1)) >= 2
  /\ \E r \in chunks : r.userId = "u1" /\ r.sourceType = "message"
  /\ \E r \in chunks : r.userId = "u2"

\* C40: when reindexAllForUser(u) has resolved, every lore or character
\* chunk of u is of a lore or character row that exists
C40_ReindexAllRemovesDrift ==
  [][\A u \in Users :
       ReindexedAll(u) =>
         \A r \in chunks' :
           /\ (r.userId = u /\ r.sourceType = "lore")
                => (r.sourceId \in LoreIds /\ lore[r.sourceId] > 0
                    /\ LoreOwner(r.sourceId) = u)
           /\ (r.userId = u /\ r.sourceType = "character")
                => (r.sourceId \in CharRows /\ CharOwner(r.sourceId) = u)]_vars


\* ---------------------------------------------------------- cleanupOldJobs
CleanupNow == 3       \* SpecCleanup: the day cleanupOldJobs is called
MaxCleanupRows == 2   \* SpecCleanup: rows of the queue
MaxRetention == 2     \* SpecCleanup: olderThanDays is 1..MaxRetention

Statuses == {"pending", "processing", "completed", "failed"}

\* a row of indexing_jobs in the given status, inserted on day createdAt and
\* last written on day updatedAt (every write of a row sets updated_at)
JobRow(status, createdAt, updatedAt) ==
  LET job == NewJob("u1", "index_lore", "ok", 1, 1, 1, createdAt)
      row == IF status = "completed" THEN Completed(job)
             ELSE IF status = "failed"
                  THEN Failed(job, DefaultMaxRetries - 1, DefaultMaxRetries)
                  ELSE [job EXCEPT !.status = status]
  IN  [id |-> createdAt, updatedAt |-> updatedAt] @@ row

\* the rows the queue may hold in position i: inserted on day i
JobRowsAt(i) ==
  {JobRow(st, i, at) : st \in Statuses, at \in i..CleanupNow}

\* the where clause without its status test
IsOld(row, cutoffDate) == row.updatedAt < cutoffDate

\* and(or(eq(status, "completed"), eq(status, "failed")), lt(updatedAt, cutoffDate))
IsOldAndDone(row, cutoffDate) ==
  /\ (row.status = "completed" \/ row.status = "failed")
  /\ row.updatedAt < cutoffDate

\* cleanupOldJobs(olderThanDays): cutoffDate is now less olderThanDays days;
\* delete from indexing_jobs where ...
CleanupOldJobs(olderThanDays) ==
  /\ calls = << >>
  /\ LET cutoffDate == clock - olderThanDays
     IN  jobs' = SelectSeq(jobs, LAMBDA row : ~IsOldAndDone(row, cutoffDate))
  /\ calls' = <<[op |-> "cleanup", olderThanDays |-> olderThanDays]>>
  /\ UNCHANGED <<clock, chunks, nextChunk, lore, hooks, wk, faults, lim, req, wr, ck,
                 cacheVars>>

InitCleanup ==
  /\ req = [c \in Clients |-> NoRequest]
  /\ wr = [p \in Writers |-> NoWriter]
  /\ ck = NoChunking
  /\ cache = << >>
  /\ now = 0
  /\ emb = [p \in Callers |-> NoEmbed]
  /\ recency = << >>
  /\ nEmb = 0
  /\ \E n \in 0..MaxCleanupRows :
       jobs \in {q \in [1..n -> UNION {JobRowsAt(i) : i \in 1..n}] :
                   \A i \in 1..n : q[i] \in JobRowsAt(i)}
  /\ clock = CleanupNow
  /\ chunks = {}
  /\ nextChunk = 1
  /\ lore = [s \in LoreIds |-> 0]
  /\ hooks = {}
  /\ wk = [w \in Workers |-> Idle(w)]
  /\ faults = 0
  /\ calls = << >>
  /\ lim = [jobs |-> MaxCleanupRows, faults |-> 0, ver |-> 1, lore |-> LoreIds,
            ties |-> FALSE]

NextCleanup == \E d \in 1..MaxRetention : CleanupOldJobs(d)

SpecCleanup == InitCleanup /\ [][NextCleanup]_vars

\* the rows of a queue
RowsIn(q) == {q[i] : i \in 1..Len(q)}

\* C31: a call of cleanupOldJobs deletes the jobs that are completed or
\* failed and were last updated before the retention window, and no other:
\* pending and processing jobs, and completed or failed jobs updated within
\* the window, stay as they were, and no row is added
C31_CleanupFrame ==
  [][(calls = << >> /\ calls' # << >> /\ calls'[1].op = "cleanup") =>
       LET cutoff == clock - calls'[1].olderThanDays
       IN  /\ RowsIn(jobs') \subseteq RowsIn(jobs)
           /\ \A row \in RowsIn(jobs) :
                row \in RowsIn(jobs') <=>
                  ~(row.status \in Terminal /\ row.updatedAt < cutoff)]_vars

\* cleanupOldJobs has deleted a row and kept another: the queue held two
\* rows and holds one, which is completed or failed
C31_Witness ==
  /\ calls # << >> /\ calls[1].op = "cleanup"
  /\ Len(jobs) = 1 /\ jobs[1].id = 2
  /\ jobs[1].status \in Terminal


\* ------------------------------------------------- the loop and its stop
LoopJobs == 2

\* the stop function startJobProcessor returns: running = false
StopProcessor ==
  /\ wk["loop"].running
  /\ wk' = [wk EXCEPT !["loop"].running = FALSE]
  /\ UNCHANGED <<jobs, clock, chunks, nextChunk, lore, hooks, faults, lim, req, wr, ck,
                 cacheVars, calls>>

InitLoop ==
  Start /\ lim = [jobs |-> LoopJobs, faults |-> MaxFaults, ver |-> 1,
                  lore |-> LoreIds, ties |-> FALSE]

NextLoop ==
  \/ Producers
  \/ LoopStep
  \/ StopProcessor

\* the background loop alone, the event loop running every step of it that
\* can run
SpecLoop == InitLoop /\ [][NextLoop]_vars /\ WF_vars(LoopStep)

\* C32: while the loop has not been stopped every pending job is claimed in
\* the end, a job that is pending after a processNextJob call has rejected
\* included; once the stop function has been called the loop begins no
\* iteration after the one it is in, and it ends
C32_LoopSurvivesAndStops ==
  /\ \A j \in 1..LoopJobs :
       (j \in JobIds /\ jobs[j].status = "pending")
         ~> ((j \in JobIds /\ jobs[j].status # "pending") \/ ~wk["loop"].running)
  /\ (~wk["loop"].running) ~> (wk["loop"].pc = "stopped")
  /\ [][/\ wk["loop"].pc = "stopped" => wk'["loop"].pc = "stopped"
        /\ (~wk["loop"].running /\ wk'["loop"].pc = "poll")
             => wk["loop"].pc = "poll"]_vars

\* processNextJob has rejected on job 1, whose payload JSON.parse rejects,
\* and the loop has gone on to claim job 2 and has then been stopped
C32_Witness ==
  /\ Len(jobs) = 2
  /\ jobs[1].payload.form = "garbled" /\ jobs[1].status = "processing"
  /\ jobs[2].status = "completed"
  /\ wk["loop"].pc = "stopped"

====
